---- MODULE Spec2Model ----
(***************************************************************************)
(* Transaction analytics of the stori backend: period bucketing, timeline  *)
(* aggregation, expense summaries and cash-flow propagation.               *)
(*                                                                         *)
(* Amounts are Decimal values built with Decimal(str(amount)); the model   *)
(* keeps them as integers (whole currency units), on which Decimal         *)
(* addition and subtraction are exact.  Dates are Python date objects,     *)
(* modelled as records [year, month, day]; date arithmetic goes through    *)
(* the proleptic Gregorian ordinal exactly as datetime.date does.          *)
(***************************************************************************)
EXTENDS Integers, Sequences, FiniteSets, TLC

(* ------------------------------------------------------------------ *)
(* Bounds of the model                                                 *)
(* ------------------------------------------------------------------ *)

\* first calendar year of the dates enumerated for the period bucketer
FirstYear == 2023

\* number of consecutive calendar years enumerated for the period bucketer
NumYears == 2

\* largest number of rows the transaction source holds for the user
MaxTxns == 3

(* ------------------------------------------------------------------ *)
(* datetime.date                                                       *)
(* ------------------------------------------------------------------ *)

Date(y, m, d) == [year |-> y, month |-> m, day |-> d]

IsLeap(y) == y % 4 = 0 /\ (y % 100 # 0 \/ y % 400 = 0)

DaysInMonth(y, m) ==
    IF m = 2 THEN (IF IsLeap(y) THEN 29 ELSE 28)
    ELSE IF m \in {4, 6, 9, 11} THEN 30 ELSE 31

IsValidDate(d) ==
    /\ d.month \in 1..12
    /\ d.day >= 1
    /\ d.day <= DaysInMonth(d.year, d.month)

DaysBeforeYear(y) ==
    LET p == y - 1 IN p * 365 + (p \div 4) - (p \div 100) + (p \div 400)

\* days of the year before the first day of month m
DaysBeforeMonth(y, m) ==
    <<0, 31, 59, 90, 120, 151, 181, 212, 243, 273, 304, 334>>[m]
    + (IF m > 2 /\ IsLeap(y) THEN 1 ELSE 0)

\* date.toordinal(): 0001-01-01 is day 1
ToOrdinal(d) == DaysBeforeYear(d.year) + DaysBeforeMonth(d.year, d.month) + d.day

\* date.fromordinal(), by the 400/100/4/1-year cycle decomposition
FromOrdinal(n) ==
    LET n0   == n - 1
        n400 == n0 \div 146097
        r400 == n0 % 146097
        n100 == r400 \div 36524
        r100 == r400 % 36524
        n4   == r100 \div 1461
        r4   == r100 % 1461
        n1   == r4 \div 365
        r1   == r4 % 365
        y    == n400 * 400 + 1 + n100 * 100 + n4 * 4 + n1
    IN  IF n1 = 4 \/ n100 = 4
        THEN Date(y - 1, 12, 31)
        ELSE LET m == CHOOSE k \in 1..12 :
                         /\ DaysBeforeMonth(y, k) <= r1
                         /\ r1 < DaysBeforeMonth(y, k) + DaysInMonth(y, k)
             IN  Date(y, m, r1 - DaysBeforeMonth(y, m) + 1)

\* date.weekday(): Monday is 0, Sunday is 6
Weekday(d) == (ToOrdinal(d) + 6) % 7

\* date + timedelta(days=k)
AddDays(d, k) == FromOrdinal(ToOrdinal(d) + k)

\* date comparison (<=, <) and the sort key of sorted()/order('date')
DateLE(a, b) == ToOrdinal(a) <= ToOrdinal(b)

DateLT(a, b) == ToOrdinal(a) < ToOrdinal(b)

(* ------------------------------------------------------------------ *)
(* Period bucketer                                                     *)
(* ------------------------------------------------------------------ *)

TimelineGrouping == {"daily", "weekly", "monthly", "yearly"}

\* A bucketer whose week starts on Sunday (isoweekday() % 7 used as offset).
PeriodKeySundayWeek(txn_date, grouping) ==
    IF grouping = "daily" THEN txn_date
    ELSE IF grouping = "weekly"
         THEN AddDays(txn_date, 0 - ((Weekday(txn_date) + 1) % 7))
    ELSE IF grouping = "monthly" THEN [txn_date EXCEPT !.day = 1]
    ELSE [txn_date EXCEPT !.month = 1, !.day = 1]

\* TimelineRepository._get_period_key
PeriodKey(txn_date, grouping) ==
    IF grouping = "daily" THEN txn_date
    ELSE IF grouping = "weekly"
         THEN AddDays(txn_date, 0 - Weekday(txn_date))
    ELSE IF grouping = "monthly" THEN [txn_date EXCEPT !.day = 1]
    ELSE [txn_date EXCEPT !.month = 1, !.day = 1]

(* ------------------------------------------------------------------ *)
(* Transaction source                                                  *)
(* ------------------------------------------------------------------ *)

\* date.isoformat(): the text 'YYYY-MM-DD', kept as its three number fields
IsoFormat(d) == <<d.year, d.month, d.day>>

\* datetime.fromisoformat(txn['date']).date()
FromIsoFormat(s) == Date(s[1], s[2], s[3])

\* comparison of two ISO date texts, as gte/lte/order('date') compare them
IsoLE(a, b) ==
    \/ a[1] < b[1]
    \/ a[1] = b[1] /\ a[2] < b[2]
    \/ a[1] = b[1] /\ a[2] = b[2] /\ a[3] <= b[3]

Row(d, type, category, amount) ==
    [date |-> IsoFormat(d), type |-> type, category |-> category, amount |-> amount]

RECURSIVE InsertByDate(_, _)
InsertByDate(sorted, txn) ==
    IF sorted = <<>> THEN <<txn>>
    ELSE IF IsoLE(Head(sorted).date, txn.date)
         THEN <<Head(sorted)>> \o InsertByDate(Tail(sorted), txn)
    ELSE <<txn>> \o sorted

\* query.order('date'): rows ascending by date
RECURSIVE OrderByDate(_)
OrderByDate(rows) ==
    IF rows = <<>> THEN <<>>
    ELSE InsertByDate(OrderByDate(SubSeq(rows, 1, Len(rows) - 1)), rows[Len(rows)])

\* query.gte('date', start_date.isoformat()).lte('date', end_date.isoformat())
RowsInRange(rows, start_date, end_date) ==
    SelectSeq(rows, LAMBDA txn :
        /\ IsoLE(IsoFormat(start_date), txn.date)
        /\ IsoLE(txn.date, IsoFormat(end_date)))

\* sorted(grouped_data.keys()) on a set of dates
RECURSIVE SortedOrdinals(_)
SortedOrdinals(S) ==
    IF S = {} THEN <<>>
    ELSE LET first == CHOOSE x \in S : \A y \in S : x <= y
         IN  <<first>> \o SortedOrdinals(S \ {first})

SortedDates(S) ==
    LET ordinals == SortedOrdinals({ ToOrdinal(d) : d \in S })
    IN  [i \in 1..Len(ordinals) |-> FromOrdinal(ordinals[i])]

\* MockDataService.is_mock_user
MockUserIds == {"user_1_young_professional"}

IsMockUser(user_id) == user_id \in MockUserIds

\* MockDataService.get_mock_transactions: the rows of the user's JSON file as
\* Transaction objects, expenses made negative and income positive
RECURSIVE MockTransactions(_)
MockTransactions(rows) ==
    IF rows = <<>> THEN <<>>
    ELSE LET tx_data == Head(rows)
             amount_value ==
                 IF tx_data.type = "expense" /\ tx_data.amount > 0
                 THEN 0 - tx_data.amount
                 ELSE IF tx_data.type = "income" /\ tx_data.amount < 0
                      THEN 0 - tx_data.amount
                 ELSE tx_data.amount
         IN  <<[transaction_date |-> FromIsoFormat(tx_data.date),
                type |-> tx_data.type, category |-> tx_data.category,
                amount |-> amount_value]>> \o MockTransactions(Tail(rows))

Abs(x) == IF x < 0 THEN 0 - x ELSE x

(* ------------------------------------------------------------------ *)
(* Cash flow: TimelineRepository.get_cash_flow_data                    *)
(* ------------------------------------------------------------------ *)

\* "Move to next period": the date the loop assigns to current_date; the
\* replace() calls yield a date that may not exist, on which Python raises
NextPeriodStart(current_date, grouping) ==
    IF grouping = "daily" THEN AddDays(current_date, 1)
    ELSE IF grouping = "weekly" THEN AddDays(current_date, 7)
    ELSE IF grouping = "monthly"
         THEN IF current_date.month = 12
              THEN [current_date EXCEPT !.year = current_date.year + 1, !.month = 1]
              ELSE [current_date EXCEPT !.month = current_date.month + 1]
    ELSE [current_date EXCEPT !.year = current_date.year + 1]

\* "Generate all periods in range first": the keys put into grouped_data, and
\* whether date.replace raised ValueError on the way
RECURSIVE GeneratePeriods(_, _, _, _)
GeneratePeriods(current_date, end_date, grouping, keys) ==
    IF ~DateLE(current_date, end_date)
    THEN [raised |-> FALSE, keys |-> keys]
    ELSE LET keys2 == keys \cup {PeriodKey(current_date, grouping)}
             next  == NextPeriodStart(current_date, grouping)
         IN  IF ~IsValidDate(next)
             THEN [raised |-> TRUE, keys |-> keys2]
             ELSE GeneratePeriods(next, end_date, grouping, keys2)

EmptyPeriod(period_key, current_balance) ==
    [date |-> period_key, opening_balance |-> current_balance,
     total_income |-> 0, total_expenses |-> 0, transactions |-> <<>>]

\* "Process transactions in chronological order"
RECURSIVE AccumulateCashFlow(_, _, _)
AccumulateCashFlow(grouped_data, rows, grouping) ==
    IF rows = <<>> THEN grouped_data
    ELSE LET txn == Head(rows)
             period_key == PeriodKey(FromIsoFormat(txn.date), grouping)
             updated ==
                 IF period_key \in DOMAIN grouped_data
                 THEN [grouped_data EXCEPT ![period_key] =
                        [@ EXCEPT
                           !.transactions = Append(@, txn),
                           !.total_income =
                               IF txn.type = "income" THEN @ + txn.amount ELSE @,
                           !.total_expenses =
                               IF txn.type = "expense" THEN @ + txn.amount ELSE @]]
                 ELSE grouped_data
         IN  AccumulateCashFlow(updated, Tail(rows), grouping)

\* A point whose net change adds the expenses instead of subtracting them.
ClosePeriodAddingExpenses(period_data, running_balance) ==
    LET net_change == period_data.total_income + period_data.total_expenses
    IN  [date |-> period_data.date,
         opening_balance |-> running_balance,
         total_income |-> period_data.total_income,
         total_expenses |-> period_data.total_expenses,
         transactions |-> period_data.transactions,
         closing_balance |-> running_balance + net_change,
         net_change |-> net_change]

\* one pass of "Calculate closing balances and net changes"
ClosePeriod(period_data, running_balance) ==
    LET net_change == period_data.total_income - period_data.total_expenses
    IN  [date |-> period_data.date,
         opening_balance |-> running_balance,
         total_income |-> period_data.total_income,
         total_expenses |-> period_data.total_expenses,
         transactions |-> period_data.transactions,
         closing_balance |-> running_balance + net_change,
         net_change |-> net_change]

\* A propagation that never carries the closing balance forward: every point
\* opens at the balance the fold was started with.
RECURSIVE PropagateBalancesNoCarry(_, _, _)
PropagateBalancesNoCarry(grouped_data, periods, running_balance) ==
    IF periods = <<>> THEN <<>>
    ELSE <<ClosePeriod(grouped_data[Head(periods)], running_balance)>>
         \o PropagateBalancesNoCarry(grouped_data, Tail(periods), running_balance)

\* the loop over sorted(grouped_data.keys())
RECURSIVE PropagateBalances(_, _, _)
PropagateBalances(grouped_data, periods, running_balance) ==
    IF periods = <<>> THEN <<>>
    ELSE LET point == ClosePeriod(grouped_data[Head(periods)], running_balance)
         IN  <<point>>
             \o PropagateBalances(grouped_data, Tail(periods), point.closing_balance)

\* TimelineRepository.get_cash_flow_data
GetCashFlowData(rows, grouping, start_date, end_date, starting_balance) ==
    LET fetched   == OrderByDate(RowsInRange(rows, start_date, end_date))
        generated == GeneratePeriods(start_date, end_date, grouping, {})
        empty     == [k \in generated.keys |-> EmptyPeriod(k, starting_balance)]
        grouped   == AccumulateCashFlow(empty, fetched, grouping)
        periods   == SortedDates(DOMAIN grouped)
    IN  IF generated.raised
        THEN [status |-> "raised", data |-> <<>>]
        ELSE [status |-> "ok",
              data |-> PropagateBalances(grouped, periods, starting_balance)]

(* ------------------------------------------------------------------ *)
(* Cash flow: TimelineService.get_cash_flow                            *)
(* ------------------------------------------------------------------ *)

\* sum(tx.amount for tx in transactions if tx.type == "income")
RECURSIVE SumIncome(_)
SumIncome(txs) ==
    IF txs = <<>> THEN 0
    ELSE (IF Head(txs).type = "income" THEN Head(txs).amount ELSE 0)
         + SumIncome(Tail(txs))

\* sum(abs(tx.amount) for tx in transactions if tx.type == "expense")
RECURSIVE SumAbsExpenses(_)
SumAbsExpenses(txs) ==
    IF txs = <<>> THEN 0
    ELSE (IF Head(txs).type = "expense" THEN Abs(Head(txs).amount) ELSE 0)
         + SumAbsExpenses(Tail(txs))

\* total_income += period['total_income'] over the periods
RECURSIVE SumTotalIncome(_)
SumTotalIncome(periods) ==
    IF periods = <<>> THEN 0
    ELSE Head(periods).total_income + SumTotalIncome(Tail(periods))

\* total_expenses += period['total_expenses'] over the periods
RECURSIVE SumTotalExpenses(_)
SumTotalExpenses(periods) ==
    IF periods = <<>> THEN 0
    ELSE Head(periods).total_expenses + SumTotalExpenses(Tail(periods))

\* CashFlowPoint(date=..., opening_balance=..., ...): the schema's six fields
ToCashFlowPoint(period) ==
    [date |-> period.date,
     opening_balance |-> period.opening_balance,
     total_income |-> period.total_income,
     total_expenses |-> period.total_expenses,
     closing_balance |-> period.closing_balance,
     net_change |-> period.net_change]

RECURSIVE MapCashFlowPoints(_)
MapCashFlowPoints(data) ==
    IF data = <<>> THEN <<>>
    ELSE <<ToCashFlowPoint(Head(data))>> \o MapCashFlowPoints(Tail(data))

RECURSIVE InsertPointByDate(_, _)
InsertPointByDate(sorted, point) ==
    IF sorted = <<>> THEN <<point>>
    ELSE IF DateLE(Head(sorted).date, point.date)
         THEN <<Head(sorted)>> \o InsertPointByDate(Tail(sorted), point)
    ELSE <<point>> \o sorted

\* The points left in the order they were created in.
KeepPointOrder(points) == points

\* points.sort(key=lambda x: x.date): a stable sort ascending by date
RECURSIVE SortPointsByDate(_)
SortPointsByDate(points) ==
    IF points = <<>> THEN <<>>
    ELSE InsertPointByDate(SortPointsByDate(SubSeq(points, 1, Len(points) - 1)),
                           points[Len(points)])

\* A response whose ending balance is the closing balance of the first point.
CashFlowResponseEndingAtFirstPoint(path, grouping, start_date, end_date, starting_balance, points) ==
    LET total_income   == SumTotalIncome(points)
        total_expenses == SumTotalExpenses(points)
    IN  [op |-> "get_cash_flow", status |-> "ok", path |-> path,
         grouping |-> grouping,
         start_date |-> start_date, end_date |-> end_date,
         starting_balance |-> starting_balance,
         cash_flow_points |-> points,
         ending_balance |->
             IF points # <<>> THEN points[1].closing_balance
             ELSE starting_balance,
         total_income |-> total_income,
         total_expenses |-> total_expenses,
         net_cash_flow |-> total_income - total_expenses]

\* the CashFlowResponse built from a list of points
CashFlowResponse(path, grouping, start_date, end_date, starting_balance, points) ==
    LET total_income   == SumTotalIncome(points)
        total_expenses == SumTotalExpenses(points)
    IN  [op |-> "get_cash_flow", status |-> "ok", path |-> path,
         grouping |-> grouping,
         start_date |-> start_date, end_date |-> end_date,
         starting_balance |-> starting_balance,
         cash_flow_points |-> points,
         ending_balance |->
             IF points # <<>> THEN points[Len(points)].closing_balance
             ELSE starting_balance,
         total_income |-> total_income,
         total_expenses |-> total_expenses,
         net_cash_flow |-> total_income - total_expenses]

\* the loop over sorted_periods of _get_mock_cash_flow
RECURSIVE MockCashFlowPoints(_, _, _, _)
MockCashFlowPoints(filtered, grouping, sorted_periods, running_balance) ==
    IF sorted_periods = <<>> THEN <<>>
    ELSE LET period_date == Head(sorted_periods)
             txs == SelectSeq(filtered, LAMBDA tx :
                        PeriodKey(tx.transaction_date, grouping) = period_date)
             period_income   == SumIncome(txs)
             period_expenses == SumAbsExpenses(txs)
             net_change      == period_income - period_expenses
             closing_balance == running_balance + net_change
         IN  <<[date |-> period_date,
                opening_balance |-> running_balance,
                total_income |-> period_income,
                total_expenses |-> period_expenses,
                closing_balance |-> closing_balance,
                net_change |-> net_change]>>
             \o MockCashFlowPoints(filtered, grouping, Tail(sorted_periods),
                                   closing_balance)

\* TimelineService._get_mock_cash_flow
MockCashFlow(rows, grouping, months_back, starting_balance, today) ==
    LET all_transactions == MockTransactions(rows)
        end_date   == today
        start_date == AddDays(today, 0 - months_back * 30)
        filtered == SelectSeq(all_transactions, LAMBDA tx :
                        /\ DateLE(start_date, tx.transaction_date)
                        /\ DateLE(tx.transaction_date, end_date))
        keys == { PeriodKey(filtered[i].transaction_date, grouping) :
                      i \in 1..Len(filtered) }
    IN  CashFlowResponse("mock", grouping, start_date, end_date, starting_balance,
            MockCashFlowPoints(filtered, grouping, SortedDates(keys),
                               starting_balance))

\* TimelineService.get_cash_flow
GetCashFlow(user_id, rows, grouping, months_back, starting_balance, today) ==
    IF IsMockUser(user_id)
    THEN MockCashFlow(rows, grouping, months_back, starting_balance, today)
    ELSE LET end_date   == today
             start_date == AddDays(today, 0 - months_back * 30)
             got == GetCashFlowData(rows, grouping, start_date, end_date,
                                    starting_balance)
         IN  IF got.status = "raised"
             THEN [op |-> "get_cash_flow", status |-> "raised"]
             ELSE CashFlowResponse("repository", grouping, start_date, end_date,
                      starting_balance,
                      SortPointsByDate(MapCashFlowPoints(got.data)))

(* ------------------------------------------------------------------ *)
(* Decimal division                                                    *)
(* ------------------------------------------------------------------ *)

\* Decimal division rounds its quotient to the precision of the context,
\* half to even.  The model keeps DecimalPlaces digits after the point: a
\* quotient is the integer number of 10^-DecimalPlaces units.
DecimalPlaces == 4

RECURSIVE Pow10(_)
Pow10(n) == IF n = 0 THEN 1 ELSE 10 * Pow10(n - 1)

DecimalOne == Pow10(DecimalPlaces)

\* a / b for b # 0, in 10^-DecimalPlaces units, rounded half to even
DecimalDivide(a, b) ==
    LET sign == IF (a < 0) # (b < 0) THEN 0 - 1 ELSE 1
        num  == Abs(a) * DecimalOne
        den  == Abs(b)
        q    == num \div den
        r    == num % den
        up   == 2 * r > den \/ (2 * r = den /\ q % 2 = 1)
    IN  sign * (IF up THEN q + 1 ELSE q)

(* ------------------------------------------------------------------ *)
(* Optional values: None is <<>>, a value v is <<v>>                   *)
(* ------------------------------------------------------------------ *)

None == <<>>

Some(v) == <<v>>

(* ------------------------------------------------------------------ *)
(* Timeline: TimelineRepository.get_timeline_data                      *)
(* ------------------------------------------------------------------ *)

\* TimelineFilters(...); categories None is the empty list (the validator
\* turns an empty list into None)
TimelineFilters(start_date, end_date, grouping, categories, include_income, include_expenses, min_amount, max_amount) ==
    [start_date |-> start_date, end_date |-> end_date, grouping |-> grouping,
     categories |-> categories, include_income |-> include_income,
     include_expenses |-> include_expenses,
     min_amount |-> min_amount, max_amount |-> max_amount]

InList(x, list) == \E i \in 1..Len(list) : list[i] = x

\* the query of get_timeline_data, up to query.order('date')
TimelineQuery(rows, filters) ==
    LET type_filters ==
            (IF filters.include_income THEN {"income"} ELSE {})
            \cup (IF filters.include_expenses THEN {"expense"} ELSE {})
        keep(txn) ==
            /\ (filters.start_date # None =>
                   IsoLE(IsoFormat(filters.start_date[1]), txn.date))
            /\ (filters.end_date # None =>
                   IsoLE(txn.date, IsoFormat(filters.end_date[1])))
            /\ (filters.categories # <<>> => InList(txn.category, filters.categories))
            /\ ((filters.min_amount # None /\ filters.min_amount[1] # 0) =>
                   txn.amount >= filters.min_amount[1])
            /\ ((filters.max_amount # None /\ filters.max_amount[1] # 0) =>
                   txn.amount <= filters.max_amount[1])
            /\ (type_filters # {} => txn.type \in type_filters)
    IN  OrderByDate(SelectSeq(rows, keep))

\* index of the entry of a dict (a sequence in insertion order) with this
\* key, 0 when the key is not in the dict
IndexOfDate(grouped_data, period_key) ==
    IF \E i \in 1..Len(grouped_data) : grouped_data[i].date = period_key
    THEN CHOOSE i \in 1..Len(grouped_data) : grouped_data[i].date = period_key
    ELSE 0

NewTimelinePeriod(period_key) ==
    [date |-> period_key,
     income_transactions |-> <<>>, expense_transactions |-> <<>>,
     total_income |-> 0, total_expenses |-> 0, transaction_count |-> 0]

\* A bucket update that stores the last amount instead of accumulating.
AddToTimelinePeriodOverwriting(period_data, txn) ==
    LET counted == [period_data EXCEPT !.transaction_count = @ + 1]
    IN  IF txn.type = "income"
        THEN [counted EXCEPT !.income_transactions = Append(@, txn),
                             !.total_income = txn.amount]
        ELSE IF txn.type = "expense"
        THEN [counted EXCEPT !.expense_transactions = Append(@, txn),
                             !.total_expenses = txn.amount]
        ELSE counted

\* the body of the loop "for txn in transactions" on the bucket of txn
AddToTimelinePeriod(period_data, txn) ==
    LET counted == [period_data EXCEPT !.transaction_count = @ + 1]
    IN  IF txn.type = "income"
        THEN [counted EXCEPT !.income_transactions = Append(@, txn),
                             !.total_income = @ + txn.amount]
        ELSE IF txn.type = "expense"
        THEN [counted EXCEPT !.expense_transactions = Append(@, txn),
                             !.total_expenses = @ + txn.amount]
        ELSE counted

\* "Group transactions by time period": grouped_data in insertion order
RECURSIVE GroupTimeline(_, _, _)
GroupTimeline(grouped_data, rows, grouping) ==
    IF rows = <<>> THEN grouped_data
    ELSE LET txn == Head(rows)
             period_key == PeriodKey(FromIsoFormat(txn.date), grouping)
             at == IndexOfDate(grouped_data, period_key)
             with_key == IF at = 0
                         THEN Append(grouped_data, NewTimelinePeriod(period_key))
                         ELSE grouped_data
             i == IF at = 0 THEN Len(with_key) ELSE at
         IN  GroupTimeline(
                 [with_key EXCEPT ![i] = AddToTimelinePeriod(@, txn)],
                 Tail(rows), grouping)

\* max(Decimal(str(txn['amount'])) for txn in txns), None for no txns
MaxAmount(txns) ==
    IF txns = <<>> THEN None
    ELSE Some(CHOOSE a \in { txns[i].amount : i \in 1..Len(txns) } :
                 \A j \in 1..Len(txns) : txns[j].amount <= a)

\* "Calculate additional metrics for each period"
TimelineMetrics(period_data) ==
    [date |-> period_data.date,
     income_transactions |-> period_data.income_transactions,
     expense_transactions |-> period_data.expense_transactions,
     total_income |-> period_data.total_income,
     total_expenses |-> period_data.total_expenses,
     transaction_count |-> period_data.transaction_count,
     net_amount |-> period_data.total_income - period_data.total_expenses,
     largest_expense |-> MaxAmount(period_data.expense_transactions),
     largest_income |-> MaxAmount(period_data.income_transactions)]

\* the aggregation of get_timeline_data on the rows the query returned
AggregateTimeline(fetched, grouping) ==
    LET grouped_data == GroupTimeline(<<>>, fetched, grouping)
    IN  [i \in 1..Len(grouped_data) |-> TimelineMetrics(grouped_data[i])]

\* TimelineRepository.get_timeline_data
GetTimelineData(rows, filters) ==
    AggregateTimeline(TimelineQuery(rows, filters), filters.grouping)

(* ------------------------------------------------------------------ *)
(* Timeline: TimelineService.get_timeline                              *)
(* ------------------------------------------------------------------ *)

\* "Set default date range if not provided": the filters object afterwards
WithDefaultRange(filters, today) ==
    IF filters.start_date = None \/ filters.end_date = None
    THEN LET end_date == today
             start_date ==
                 IF filters.grouping = "daily" THEN AddDays(end_date, 0 - 30)
                 ELSE IF filters.grouping = "weekly" THEN AddDays(end_date, 0 - 12 * 7)
                 ELSE IF filters.grouping = "monthly" THEN AddDays(end_date, 0 - 365)
                 ELSE AddDays(end_date, 0 - 365 * 5)
         IN  [filters EXCEPT
                 !.start_date = IF @ # None THEN @ ELSE Some(start_date),
                 !.end_date   = IF @ # None THEN @ ELSE Some(end_date)]
    ELSE filters

\* TimelineDataPoint(...) of one period of the repository
ToTimelineDataPoint(period) ==
    [date |-> period.date,
     total_income |-> period.total_income,
     total_expenses |-> period.total_expenses,
     net_amount |-> period.net_amount,
     transaction_count |-> period.transaction_count,
     largest_expense |-> period.largest_expense,
     largest_income |-> period.largest_income]

RECURSIVE SumTransactionCount(_)
SumTransactionCount(periods) ==
    IF periods = <<>> THEN 0
    ELSE Head(periods).transaction_count + SumTransactionCount(Tail(periods))

\* "Calculate summary statistics" and the TimelineResponse
TimelineResponse(path, filters, data_points) ==
    LET total_income   == SumTotalIncome(data_points)
        total_expenses == SumTotalExpenses(data_points)
        n == Len(data_points)
    IN  [op |-> "get_timeline", status |-> "ok", path |-> path,
         grouping |-> filters.grouping,
         data_points |-> SortPointsByDate(data_points),
         date_range |-> [start_date |-> filters.start_date[1],
                         end_date |-> filters.end_date[1]],
         total_periods |-> n,
         summary_stats |->
             [total_income |-> total_income,
              total_expenses |-> total_expenses,
              net_amount |-> total_income - total_expenses,
              avg_income_per_period |->
                  IF n # 0 THEN DecimalDivide(total_income, n) ELSE 0,
              avg_expenses_per_period |->
                  IF n # 0 THEN DecimalDivide(total_expenses, n) ELSE 0,
              total_transactions |-> SumTransactionCount(data_points)],
         filters |-> filters]

\* period_groups of _get_mock_timeline: the period keys in insertion order
RECURSIVE MockPeriodKeys(_, _, _)
MockPeriodKeys(keys, txs, grouping) ==
    IF txs = <<>> THEN keys
    ELSE LET period_key == PeriodKey(Head(txs).transaction_date, grouping)
         IN  MockPeriodKeys(
                 IF InList(period_key, keys) THEN keys ELSE Append(keys, period_key),
                 Tail(txs), grouping)

\* max(..., default=Decimal('0')) over the amounts the selector takes
MaxOrZero(amounts) ==
    IF amounts = {} THEN 0
    ELSE CHOOSE a \in amounts : \A b \in amounts : b <= a

\* the data point _get_mock_timeline creates for one period
MockTimelinePoint(period_date, txs) ==
    LET period_income   == SumIncome(txs)
        period_expenses == SumAbsExpenses(txs)
    IN  [date |-> period_date,
         total_income |-> period_income,
         total_expenses |-> period_expenses,
         net_amount |-> period_income - period_expenses,
         transaction_count |-> Len(txs),
         largest_expense |->
             Some(MaxOrZero({ Abs(txs[i].amount) :
                                i \in { j \in 1..Len(txs) : txs[j].type = "expense" } })),
         largest_income |->
             Some(MaxOrZero({ txs[i].amount :
                                i \in { j \in 1..Len(txs) : txs[j].type = "income" } }))]

\* TimelineService._get_mock_timeline
MockTimeline(rows, filters_in, today) ==
    LET all_transactions == MockTransactions(rows)
        filters  == WithDefaultRange(filters_in, today)
        filtered == SelectSeq(all_transactions, LAMBDA tx :
                        /\ DateLE(filters.start_date[1], tx.transaction_date)
                        /\ DateLE(tx.transaction_date, filters.end_date[1]))
        keys == MockPeriodKeys(<<>>, filtered, filters.grouping)
        data_points ==
            [i \in 1..Len(keys) |->
                MockTimelinePoint(keys[i],
                    SelectSeq(filtered, LAMBDA tx :
                        PeriodKey(tx.transaction_date, filters.grouping) = keys[i]))]
    IN  TimelineResponse("mock", filters, data_points)

\* TimelineService.get_timeline
GetTimeline(user, rows, filters_in, today) ==
    IF IsMockUser(user)
    THEN MockTimeline(rows, filters_in, today)
    ELSE LET filters == WithDefaultRange(filters_in, today)
             timeline_data == GetTimelineData(rows, filters)
         IN  TimelineResponse("repository", filters,
                 [i \in 1..Len(timeline_data) |->
                     ToTimelineDataPoint(timeline_data[i])])

(* ------------------------------------------------------------------ *)
(* Expenses: ExpenseRepository                                         *)
(* ------------------------------------------------------------------ *)

ExpensePeriod == {"daily", "weekly", "monthly", "yearly"}

\* ExpenseFilters(...); categories None is the empty list
ExpenseFilters(start_date, end_date, categories, min_amount, max_amount, period) ==
    [start_date |-> start_date, end_date |-> end_date, categories |-> categories,
     min_amount |-> min_amount, max_amount |-> max_amount, period |-> period]

\* the query of get_expense_summary: no type filter and no ordering
ExpenseSummaryQuery(rows, filters) ==
    LET keep(txn) ==
            /\ (filters.start_date # None =>
                   IsoLE(IsoFormat(filters.start_date[1]), txn.date))
            /\ (filters.end_date # None =>
                   IsoLE(txn.date, IsoFormat(filters.end_date[1])))
            /\ (filters.categories # <<>> => InList(txn.category, filters.categories))
            /\ ((filters.min_amount # None /\ filters.min_amount[1] # 0) =>
                   txn.amount >= filters.min_amount[1])
            /\ ((filters.max_amount # None /\ filters.max_amount[1] # 0) =>
                   txn.amount <= filters.max_amount[1])
    IN  SelectSeq(rows, keep)

\* index of a category in a dict kept as a sequence in insertion order
IndexOfCategory(dict, category) ==
    IF \E i \in 1..Len(dict) : dict[i].category = category
    THEN CHOOSE i \in 1..Len(dict) : dict[i].category = category
    ELSE 0

\* A category update that drops the amount of the first transaction of a
\* category (the entry is created at zero and the addition skipped).
AddToCategoryDroppingFirst(dict, category, amount) ==
    LET at == IndexOfCategory(dict, category)
    IN  IF at = 0
        THEN Append(dict, [category |-> category, total_amount |-> 0,
                           transaction_count |-> 1])
        ELSE [dict EXCEPT ![at] = [@ EXCEPT !.total_amount = @ + amount,
                                            !.transaction_count = @ + 1]]

\* "if category not in category_totals: ... = Decimal('0')" followed by the
\* two additions; totals and counts share their keys and order
AddToCategory(dict, category, amount) ==
    LET at == IndexOfCategory(dict, category)
        with_key == IF at = 0
                    THEN Append(dict, [category |-> category, total_amount |-> 0,
                                       transaction_count |-> 0])
                    ELSE dict
        i == IF at = 0 THEN Len(with_key) ELSE at
    IN  [with_key EXCEPT ![i] = [@ EXCEPT !.total_amount = @ + amount,
                                          !.transaction_count = @ + 1]]

\* "Calculate summary statistics": the loop over the fetched transactions
RECURSIVE SummarizeExpenses(_, _)
SummarizeExpenses(acc, txns) ==
    IF txns = <<>> THEN acc
    ELSE LET txn == Head(txns)
             next ==
                 IF txn.type = "expense"
                 THEN [acc EXCEPT
                         !.total_expenses = @ + txn.amount,
                         !.categories = AddToCategory(@, txn.category, txn.amount)]
                 ELSE IF txn.type = "income"
                 THEN [acc EXCEPT !.total_income = @ + txn.amount]
                 ELSE acc
         IN  SummarizeExpenses(next, Tail(txns))

\* the aggregation of get_expense_summary on the rows the query returned
AggregateExpenses(fetched) ==
    LET acc == SummarizeExpenses(
                   [total_expenses |-> 0, total_income |-> 0, categories |-> <<>>],
                   fetched)
    IN  [total_expenses |-> acc.total_expenses,
         total_income |-> acc.total_income,
         net_amount |-> acc.total_income - acc.total_expenses,
         category_totals |->
             [i \in 1..Len(acc.categories) |->
                 [category |-> acc.categories[i].category,
                  total_amount |-> acc.categories[i].total_amount]],
         category_counts |->
             [i \in 1..Len(acc.categories) |->
                 [category |-> acc.categories[i].category,
                  transaction_count |-> acc.categories[i].transaction_count]],
         transaction_count |-> Len(fetched),
         transactions |-> fetched]

\* ExpenseRepository.get_expense_summary
GetExpenseSummaryData(rows, filters) ==
    AggregateExpenses(ExpenseSummaryQuery(rows, filters))

\* the query of get_expense_trends and of get_top_categories: expenses of the
\* date range (each bound applied when given)
ExpenseRowsInRange(rows, start_date, end_date) ==
    SelectSeq(rows, LAMBDA txn :
        /\ txn.type = "expense"
        /\ (start_date # None => IsoLE(IsoFormat(start_date[1]), txn.date))
        /\ (end_date # None => IsoLE(txn.date, IsoFormat(end_date[1]))))

\* "Group transactions by period" of get_expense_trends, trends in insertion
\* order; the weekly branch is never taken here (it raises, see below)
RECURSIVE GroupTrends(_, _, _)
GroupTrends(trends, txns, period) ==
    IF txns = <<>> THEN trends
    ELSE LET txn == Head(txns)
             txn_date == FromIsoFormat(txn.date)
             period_key ==
                 IF period = "daily" THEN txn_date
                 ELSE IF period = "monthly" THEN [txn_date EXCEPT !.day = 1]
                 ELSE [txn_date EXCEPT !.month = 1, !.day = 1]
             at == IndexOfDate(trends, period_key)
             with_key ==
                 IF at = 0
                 THEN Append(trends, [date |-> period_key, total_amount |-> 0,
                                      category_amounts |-> <<>>,
                                      transaction_count |-> 0])
                 ELSE trends
             i == IF at = 0 THEN Len(with_key) ELSE at
         IN  GroupTrends(
                 [with_key EXCEPT ![i] =
                     [@ EXCEPT
                        !.total_amount = @ + txn.amount,
                        !.transaction_count = @ + 1,
                        !.category_amounts =
                            AddToCategory(@, txn.category, txn.amount)]],
                 Tail(txns), period)

\* ExpenseRepository.get_expense_trends.  The weekly branch evaluates
\* datetime.timedelta on the datetime class, which has no such attribute: the
\* call raises on the first transaction.
GetExpenseTrendsData(rows, period, start_date, end_date) ==
    LET fetched == OrderByDate(ExpenseRowsInRange(rows, Some(start_date),
                                                  Some(end_date)))
    IN  IF period = "weekly" /\ fetched # <<>>
        THEN [status |-> "raised", trends |-> <<>>]
        ELSE [status |-> "ok", trends |-> GroupTrends(<<>>, fetched, period)]

RECURSIVE GroupCategories(_, _)
GroupCategories(category_stats, txns) ==
    IF txns = <<>> THEN category_stats
    ELSE GroupCategories(
             AddToCategory(category_stats, Head(txns).category, Head(txns).amount),
             Tail(txns))

RECURSIVE InsertByTotalDescending(_, _)
InsertByTotalDescending(sorted, x) ==
    IF sorted = <<>> THEN <<x>>
    ELSE IF Head(sorted).total_amount >= x.total_amount
         THEN <<Head(sorted)>> \o InsertByTotalDescending(Tail(sorted), x)
    ELSE <<x>> \o sorted

\* A sort by total_amount descending that puts later entries first among
\* equal totals.
RECURSIVE SortByTotalDescendingReversingTies(_)
SortByTotalDescendingReversingTies(list) ==
    IF list = <<>> THEN <<>>
    ELSE LET rest == SortByTotalDescendingReversingTies(Tail(list))
             x == Head(list)
             before == SelectSeq(rest, LAMBDA y : y.total_amount >= x.total_amount)
             after  == SelectSeq(rest, LAMBDA y : y.total_amount < x.total_amount)
         IN  before \o <<x>> \o after

\* list.sort(key=lambda x: x.total_amount, reverse=True) and
\* sorted(..., key=lambda x: x['total_amount'], reverse=True): stable, so
\* entries with equal totals keep the order they had
RECURSIVE SortByTotalDescending(_)
SortByTotalDescending(list) ==
    IF list = <<>> THEN <<>>
    ELSE InsertByTotalDescending(
             SortByTotalDescending(SubSeq(list, 1, Len(list) - 1)),
             list[Len(list)])

\* sorted_categories[:limit]
Take(list, limit) == SubSeq(list, 1, IF limit < Len(list) THEN limit ELSE Len(list))

\* ExpenseRepository.get_top_categories
GetTopCategories(rows, limit, start_date, end_date) ==
    Take(SortByTotalDescending(
             GroupCategories(<<>>, ExpenseRowsInRange(rows, start_date, end_date))),
         limit)

(* ------------------------------------------------------------------ *)
(* Expenses: ExpenseService                                            *)
(* ------------------------------------------------------------------ *)

\* the start of the default range, counted back from end_date by period
PeriodStart(period, end_date) ==
    IF period = "daily" THEN end_date
    ELSE IF period = "weekly" THEN AddDays(end_date, 0 - 7)
    ELSE IF period = "monthly" THEN [end_date EXCEPT !.day = 1]
    ELSE [end_date EXCEPT !.month = 1, !.day = 1]

\* "Set default date range if not provided": the filters object afterwards
WithDefaultExpenseRange(filters, today) ==
    IF filters.start_date = None \/ filters.end_date = None
    THEN [filters EXCEPT
             !.start_date = IF @ # None THEN @
                            ELSE Some(PeriodStart(filters.period, today)),
             !.end_date   = IF @ # None THEN @ ELSE Some(today)]
    ELSE filters

\* count = summary_data['category_counts'].get(category, 0)
CountOfCategory(category_counts, category) ==
    LET at == IndexOfCategory(category_counts, category)
    IN  IF at = 0 THEN 0 ELSE category_counts[at].transaction_count

\* float(total_amount / total * 100) if total > 0 else 0, in
\* 10^-DecimalPlaces percent
PercentageOfTotal(total_amount, total) ==
    IF total > 0 THEN DecimalDivide(total_amount, total) * 100 ELSE 0

\* total_amount / count if count > 0 else Decimal('0'), in 10^-DecimalPlaces
AvgAmount(total_amount, count) ==
    IF count > 0 THEN DecimalDivide(total_amount, count) ELSE 0

\* "Calculate category breakdown with percentages", before the sort
CategoryBreakdown(summary_data) ==
    [i \in 1..Len(summary_data.category_totals) |->
        LET category == summary_data.category_totals[i].category
            total_amount == summary_data.category_totals[i].total_amount
            count == CountOfCategory(summary_data.category_counts, category)
        IN  [category |-> category,
             total_amount |-> total_amount,
             transaction_count |-> count,
             percentage_of_total |->
                 PercentageOfTotal(total_amount, summary_data.total_expenses),
             avg_amount |-> AvgAmount(total_amount, count)]]

\* ExpenseService.get_expense_summary.  _get_mock_expense_summary reads
\* attributes the transaction and the filters do not have and passes the
\* response fields it was not declared with: it raises on every input.
GetExpenseSummary(user, rows, filters_in, today) ==
    LET filters == WithDefaultExpenseRange(filters_in, today)
    IN  IF IsMockUser(user)
        THEN [op |-> "get_expense_summary", status |-> "raised"]
        ELSE LET summary_data == GetExpenseSummaryData(rows, filters)
             IN  [op |-> "get_expense_summary", status |-> "ok",
                  period |-> filters.period,
                  total_expenses |-> summary_data.total_expenses,
                  total_income |-> summary_data.total_income,
                  net_amount |-> summary_data.net_amount,
                  category_breakdown |->
                      SortByTotalDescending(CategoryBreakdown(summary_data)),
                  transaction_count |-> summary_data.transaction_count,
                  date_range |-> [start_date |-> filters.start_date[1],
                                  end_date |-> filters.end_date[1]]]

\* ExpenseService.get_expense_trends
GetExpenseTrends(rows, period, months_back, today) ==
    LET end_date == today
        start_date == AddDays(end_date, 0 - months_back * 30)
        trend_data == GetExpenseTrendsData(rows, period, start_date, end_date)
    IN  [op |-> "get_expense_trends", status |-> trend_data.status,
         trends |-> trend_data.trends]

RECURSIVE SumTotalAmount(_)
SumTotalAmount(categories) ==
    IF categories = <<>> THEN 0
    ELSE Head(categories).total_amount + SumTotalAmount(Tail(categories))

\* ExpenseService.get_top_expense_categories
GetTopExpenseCategories(rows, limit, period, today) ==
    LET end_date == today
        start_date == PeriodStart(period, end_date)
        categories == GetTopCategories(rows, limit, Some(start_date), Some(end_date))
        total_amount == SumTotalAmount(categories)
    IN  [op |-> "get_top_expense_categories", status |-> "ok",
         categories |->
             [i \in 1..Len(categories) |->
                 [category |-> categories[i].category,
                  total_amount |-> categories[i].total_amount,
                  transaction_count |-> categories[i].transaction_count,
                  percentage_of_total |->
                      PercentageOfTotal(categories[i].total_amount, total_amount),
                  avg_amount |-> AvgAmount(categories[i].total_amount,
                                           categories[i].transaction_count)]]]

(* ------------------------------------------------------------------ *)
(* Timeline: TimelineService.get_spending_velocity                     *)
(* ------------------------------------------------------------------ *)

\* A mid point that leaves the extra bucket of an odd count in the first half.
MidPointRoundedUp(n) == (n + 1) \div 2

\* mid_point = len(timeline.data_points) // 2
MidPoint(n) == n \div 2

\* sum(...) / count if count > 0 else Decimal('0'), in 10^-DecimalPlaces units
HalfAverage(points) ==
    IF Len(points) > 0
    THEN DecimalDivide(SumTotalExpenses(points), Len(points))
    ELSE 0

\* "Determine trend": second_half_avg against first_half_avg * Decimal('1.1')
\* and first_half_avg * Decimal('0.9')
VelocityTrend(first_half_avg, second_half_avg) ==
    IF 10 * second_half_avg > 11 * first_half_avg THEN "increasing"
    ELSE IF 10 * second_half_avg < 9 * first_half_avg THEN "decreasing"
    ELSE "stable"

\* get_spending_velocity from "if not timeline.data_points" on: the result for
\* the data points of the timeline; daily_avg and the half averages are in
\* 10^-DecimalPlaces units, and the result for an empty timeline has no half
\* averages
VelocityOfPoints(data_points, days) ==
    IF data_points = <<>>
    THEN [op |-> "get_spending_velocity", status |-> "ok",
          daily_avg |-> 0, velocity_trend |-> "stable",
          days_analyzed |-> days, total_spent |-> 0]
    ELSE LET total_spent == SumTotalExpenses(data_points)
             mid_point == MidPoint(Len(data_points))
             first_half_avg == HalfAverage(SubSeq(data_points, 1, mid_point))
             second_half_avg ==
                 HalfAverage(SubSeq(data_points, mid_point + 1, Len(data_points)))
         IN  [op |-> "get_spending_velocity", status |-> "ok",
              daily_avg |-> DecimalDivide(total_spent, Len(data_points)),
              velocity_trend |-> VelocityTrend(first_half_avg, second_half_avg),
              days_analyzed |-> Len(data_points),
              total_spent |-> total_spent,
              first_half_avg |-> first_half_avg,
              second_half_avg |-> second_half_avg]

\* TimelineService.get_spending_velocity: the daily timeline of the last `days`
\* days, then the velocity of its data points
GetSpendingVelocity(user, rows, days, today) ==
    LET end_date == today
        start_date == AddDays(end_date, 0 - days)
        filters == TimelineFilters(Some(start_date), Some(end_date), "daily",
                                   <<>>, FALSE, TRUE, None, None)
    IN  VelocityOfPoints(GetTimeline(user, rows, filters, today).data_points, days)

(* ------------------------------------------------------------------ *)
(* AI: AIRepository.get_anomalies                                      *)
(* ------------------------------------------------------------------ *)

\* anomalies[:10]
MaxAnomalies == 10

\* orders in which the database may return rows of equal amount
TieOrders == {"stored", "reversed"}

\* the rows of the table with their primary key (the position in the table)
RECURSIVE WithIds(_, _)
WithIds(rows, first_id) ==
    IF rows = <<>> THEN <<>>
    ELSE <<[id |-> first_id, date |-> Head(rows).date, type |-> Head(rows).type,
            category |-> Head(rows).category, amount |-> Head(rows).amount]>>
         \o WithIds(Tail(rows), first_id + 1)

RECURSIVE Reverse(_)
Reverse(list) ==
    IF list = <<>> THEN <<>> ELSE Append(Reverse(Tail(list)), Head(list))

RECURSIVE InsertByAmountDescending(_, _)
InsertByAmountDescending(sorted, txn) ==
    IF sorted = <<>> THEN <<txn>>
    ELSE IF Head(sorted).amount >= txn.amount
         THEN <<Head(sorted)>> \o InsertByAmountDescending(Tail(sorted), txn)
    ELSE <<txn>> \o sorted

\* .order('amount', desc=True): by signed amount, rows of equal amount in the
\* order the database chooses
RECURSIVE OrderByAmountDescending(_)
OrderByAmountDescending(rows) ==
    IF rows = <<>> THEN <<>>
    ELSE InsertByAmountDescending(
             OrderByAmountDescending(SubSeq(rows, 1, Len(rows) - 1)),
             rows[Len(rows)])

\* the query of get_anomalies
AnomalyQuery(rows, days_back, today, tie_order) ==
    LET end_date == today
        start_date == AddDays(end_date, 0 - days_back)
        matching == SelectSeq(WithIds(rows, 1), LAMBDA txn :
                        /\ txn.type = "expense"
                        /\ IsoLE(IsoFormat(start_date), txn.date)
                        /\ IsoLE(txn.date, IsoFormat(end_date)))
    IN  OrderByAmountDescending(
            IF tie_order = "reversed" THEN Reverse(matching) ELSE matching)

RECURSIVE SumAmounts(_)
SumAmounts(txns) ==
    IF txns = <<>> THEN 0 ELSE Head(txns).amount + SumAmounts(Tail(txns))

RECURSIVE SumSquaredAmounts(_)
SumSquaredAmounts(txns) ==
    IF txns = <<>> THEN 0
    ELSE Head(txns).amount * Head(txns).amount + SumSquaredAmounts(Tail(txns))

\* A threshold test that also flags an amount equal to the threshold.
AboveAnomalyThresholdOrEqual(amount, txns, rounded_up) ==
    LET n == Len(txns)
        deviation == n * amount - SumAmounts(txns)
        spread == n * SumSquaredAmounts(txns) - SumAmounts(txns) * SumAmounts(txns)
    IN  deviation >= 0 /\ deviation * deviation >= 4 * spread

\* amount > anomaly_threshold, where anomaly_threshold = avg_amount + 2 *
\* std_dev: with n amounts of sum S and sum of squares Q, n * (amount -
\* avg_amount) is n * amount - S and n^2 * variance is n * Q - S^2.  The code
\* computes in binary floating point: an amount exactly at a threshold with a
\* nonzero std_dev compares greater when the threshold was rounded down
\* (rounded_up is FALSE), e.g. 700 among 22, 22, 22, 22.
AboveAnomalyThreshold(amount, txns, rounded_up) ==
    LET n == Len(txns)
        deviation == n * amount - SumAmounts(txns)
        spread == n * SumSquaredAmounts(txns) - SumAmounts(txns) * SumAmounts(txns)
    IN  /\ deviation > 0
        /\ \/ deviation * deviation > 4 * spread
           \/ (deviation * deviation = 4 * spread /\ spread > 0 /\ ~rounded_up)

\* the record appended for a flagged transaction; deviation_factor is
\* amount / avg_amount in 10^-DecimalPlaces units
AnomalyRecord(txn, txns) ==
    [transaction_id |-> txn.id,
     amount |-> txn.amount,
     category |-> txn.category,
     date |-> txn.date,
     deviation_factor |-> DecimalDivide(txn.amount * Len(txns), SumAmounts(txns)),
     anomaly_type |-> "high_amount"]

\* the detection of get_anomalies on the rows the query returned; the
\* division amount / avg_amount of floats raises ZeroDivisionError when
\* avg_amount is 0
DetectAnomalies(transactions, rounded_up) ==
    IF transactions = <<>>
    THEN [status |-> "ok", anomalies |-> <<>>]
    ELSE LET flagged == SelectSeq(transactions, LAMBDA txn :
                            AboveAnomalyThreshold(txn.amount, transactions, rounded_up))
         IN  IF flagged # <<>> /\ SumAmounts(transactions) = 0
             THEN [status |-> "raised", anomalies |-> <<>>]
             ELSE [status |-> "ok",
                   anomalies |->
                       Take([i \in 1..Len(flagged) |->
                                AnomalyRecord(flagged[i], transactions)],
                            MaxAnomalies)]

\* AIRepository.get_anomalies
GetAnomalies(rows, days_back, today, tie_order, rounded_up) ==
    DetectAnomalies(AnomalyQuery(rows, days_back, today, tie_order), rounded_up)

(* ------------------------------------------------------------------ *)
(* Transactions: TransactionsService                                   *)
(* ------------------------------------------------------------------ *)

\* TransactionCreate(...): the validators of TransactionBase on category and
\* amount test 'type' in values, and type is declared after both fields, so
\* they accept every amount and category
TransactionCreate(amount, category, type, transaction_date) ==
    [amount |-> amount, category |-> category, type |-> type,
     transaction_date |-> transaction_date]

\* TransactionUpdate(...): every field is Optional
TransactionUpdate(amount, category, type, transaction_date) ==
    [amount |-> amount, category |-> category, type |-> type,
     transaction_date |-> transaction_date]

\* A validation that accepts a zero amount.
ValidateTransactionCreationAllowingZero(transaction_data, today) ==
    IF DateLT(today, transaction_data.transaction_date)
    THEN [status |-> "raised", error |-> "ValueError",
          message |-> "Transaction date cannot be in the future"]
    ELSE [status |-> "ok", transaction_data |-> transaction_data]

\* TransactionsService._validate_transaction_creation: it raises, or it
\* returns having made the amount of an expense negative and of an income
\* positive on the transaction_data object
ValidateTransactionCreation(transaction_data, today) ==
    IF transaction_data.amount = 0
    THEN [status |-> "raised", error |-> "ValueError",
          message |-> "Transaction amount cannot be zero"]
    ELSE IF DateLT(today, transaction_data.transaction_date)
    THEN [status |-> "raised", error |-> "ValueError",
          message |-> "Transaction date cannot be in the future"]
    ELSE IF transaction_data.type = "expense" /\ transaction_data.amount > 0
    THEN [status |-> "ok",
          transaction_data |-> [transaction_data EXCEPT !.amount = 0 - Abs(@)]]
    ELSE IF transaction_data.type = "income" /\ transaction_data.amount < 0
    THEN [status |-> "ok",
          transaction_data |-> [transaction_data EXCEPT !.amount = Abs(@)]]
    ELSE [status |-> "ok", transaction_data |-> transaction_data]

\* TransactionsRepository.create_transaction: the table after the insert
RepositoryCreateTransaction(rows, transaction_data) ==
    Append(rows, Row(transaction_data.transaction_date, transaction_data.type,
                     transaction_data.category, transaction_data.amount))

\* TransactionsService.create_transaction: the result of the call and the
\* table after it
CreateTransaction(rows, transaction_data, today) ==
    LET validation == ValidateTransactionCreation(transaction_data, today)
    IN  IF validation.status = "raised"
        THEN [op |-> "create_transaction", status |-> "raised",
              error |-> validation.error, message |-> validation.message,
              rows |-> rows]
        ELSE LET stored == RepositoryCreateTransaction(rows, validation.transaction_data)
             IN  [op |-> "create_transaction", status |-> "ok",
                  transaction |-> stored[Len(stored)], rows |-> stored]

\* TransactionsService._validate_transaction_update; a transaction id is the
\* position of the row in the table
ValidateTransactionUpdate(rows, transaction_id, update_data, today) ==
    IF transaction_id \notin 1..Len(rows)
    THEN [status |-> "raised", error |-> "ValueError",
          message |-> "Transaction not found"]
    ELSE IF update_data.amount # None /\ update_data.amount[1] = 0
    THEN [status |-> "raised", error |-> "ValueError",
          message |-> "Transaction amount cannot be zero"]
    ELSE IF update_data.transaction_date # None
            /\ DateLT(today, update_data.transaction_date[1])
    THEN [status |-> "raised", error |-> "ValueError",
          message |-> "Transaction date cannot be in the future"]
    ELSE [status |-> "ok"]

\* TransactionsRepository.update_transaction: db_update holds the fields of
\* update_data that are not None, and the row takes them as they are
RepositoryUpdateTransaction(rows, transaction_id, update_data) ==
    [rows EXCEPT ![transaction_id] =
        [date |-> IF update_data.transaction_date # None
                  THEN IsoFormat(update_data.transaction_date[1]) ELSE @.date,
         type |-> IF update_data.type # None THEN update_data.type[1] ELSE @.type,
         category |-> IF update_data.category # None
                      THEN update_data.category[1] ELSE @.category,
         amount |-> IF update_data.amount # None
                    THEN update_data.amount[1] ELSE @.amount]]

\* TransactionsService.update_transaction: the result of the call and the
\* table after it
UpdateTransaction(rows, transaction_id, update_data, today) ==
    LET validation == ValidateTransactionUpdate(rows, transaction_id, update_data, today)
    IN  IF validation.status = "raised"
        THEN [op |-> "update_transaction", status |-> "raised",
              error |-> validation.error, message |-> validation.message,
              rows |-> rows]
        ELSE LET stored == RepositoryUpdateTransaction(rows, transaction_id, update_data)
             IN  [op |-> "update_transaction", status |-> "ok",
                  transaction |-> stored[transaction_id], rows |-> stored]


(* ------------------------------------------------------------------ *)
(* Sessions: SessionService                                            *)
(* ------------------------------------------------------------------ *)

\* the largest max_history_length a SessionService is constructed with
MaxHistoryLength == 2

\* the histories are followed up to this many entries
MaxEntries == 3

\* session_timeout of the SessionService the model runs, in clock ticks
SessionTimeout == 2

\* a dict without the keys of a set (del dict[key] for each of them)
WithoutKeys(dict, keys) == [k \in DOMAIN dict \ keys |-> dict[k]]

\* a dict with a key assigned (dict[key] = value)
WithKey(dict, key, value) ==
    [k \in DOMAIN dict \cup {key} |-> IF k = key THEN value ELSE dict[k]]

\* SessionService._cleanup_expired_sessions: the two dicts afterwards
CleanupExpiredSessions(histories, timestamps, current_time) ==
    LET expired_sessions ==
            { session_id \in DOMAIN timestamps :
                  current_time - timestamps[session_id] > SessionTimeout }
    IN  [chat_histories |-> WithoutKeys(histories, expired_sessions),
         session_timestamps |-> WithoutKeys(timestamps, expired_sessions)]

\* history[-length:]: the last `length` entries, and the whole list when
\* length is 0 or the list is not longer
KeepLast(history, length) ==
    IF length = 0 \/ Len(history) <= length THEN history
    ELSE SubSeq(history, Len(history) - length + 1, Len(history))

\* SessionService.add_to_history: the two dicts afterwards
AddToHistory(histories, timestamps, length, session_id, question, answer, current_time) ==
    LET started  == IF session_id \in DOMAIN histories THEN histories[session_id]
                    ELSE <<>>
        appended == Append(started, <<question, answer>>)
        trimmed  == IF Len(appended) > length
                    THEN KeepLast(appended, length)
                    ELSE appended
    IN  [chat_histories |-> WithKey(histories, session_id, trimmed),
         session_timestamps |-> WithKey(timestamps, session_id, current_time)]

\* SessionService.clear_session: the two dicts afterwards and the result
ClearSession(histories, timestamps, session_id) ==
    IF session_id \in DOMAIN histories
    THEN [chat_histories |-> WithoutKeys(histories, {session_id}),
          session_timestamps |-> WithoutKeys(timestamps, {session_id}),
          result |-> TRUE]
    ELSE [chat_histories |-> histories, session_timestamps |-> timestamps,
          result |-> FALSE]

\* sum(len(history) for history in self.chat_histories.values())
RECURSIVE TotalConversations(_, _)
TotalConversations(histories, keys) ==
    IF keys = {} THEN 0
    ELSE LET k == CHOOSE x \in keys : TRUE
         IN  Len(histories[k]) + TotalConversations(histories, keys \ {k})


(* ------------------------------------------------------------------ *)
(* State                                                               *)
(* ------------------------------------------------------------------ *)

VARIABLES
    user_id,        \* the user whose data the calls are about
    transactions,   \* rows the transaction source holds for that user
    request,        \* the arguments of the call being served, if any
    response,       \* what the call in progress returned (or that it raised)
    caller_filters, \* the filters object a caller holds and passes to the calls
    users_cache,          \* MockDataService._users_cache
    user_lists,           \* the list objects _users_cache has been assigned
    transactions_cache,   \* MockDataService._transactions_cache
    threads,              \* the threads calling the shared MockDataService
    chat_histories,       \* SessionService.chat_histories
    session_timestamps,   \* SessionService.session_timestamps
    now,                  \* the clock datetime.now() reads
    max_history_length    \* the limit the SessionService was constructed with

\* the shared MockDataService and the threads calling it
mockVars == <<users_cache, user_lists, transactions_cache, threads>>

\* the SessionService and its clock
sessionVars == <<chat_histories, session_timestamps, now, max_history_length>>

vars == <<user_id, transactions, request, response, caller_filters, mockVars, sessionVars>>

UserIds == {"user123"} \cup MockUserIds

NoRequest == [op |-> "none"]

NoResponse == [op |-> "none"]

\* the threads of the host that call the shared MockDataService
Threads == {"t1", "t2"}

\* a thread that has not called yet
IdleThread == [pc |-> "idle"]

\* an empty dict
EmptyDict == [k \in {} |-> <<>>]

\* MockDataService.__init__: empty caches; no caller holds a filters object
\* and no thread has called
MockDataServiceConstructed ==
    /\ caller_filters = None
    /\ users_cache = None
    /\ user_lists = <<>>
    /\ transactions_cache = None
    /\ threads = [t \in Threads |-> IdleThread]

\* SessionService.__init__(max_history_length): no sessions
SessionServiceConstructed(length) ==
    /\ chat_histories = EmptyDict
    /\ session_timestamps = EmptyDict
    /\ now = 0
    /\ max_history_length = length

ServicesConstructed ==
    /\ MockDataServiceConstructed
    /\ SessionServiceConstructed(MaxHistoryLength)

(* ------------------------------------------------------------------ *)
(* Specification of the period bucketer on all dates of the years      *)
(* FirstYear .. FirstYear + NumYears - 1                               *)
(* ------------------------------------------------------------------ *)

KeyYears == FirstYear .. (FirstYear + NumYears - 1)

KeyDates ==
    { Date(y, m, d) : y \in KeyYears, m \in 1..12, d \in 1..31 }

InitPeriodKey ==
    /\ user_id = "user123"
    /\ transactions = <<>>
    /\ \E d \in KeyDates, g \in TimelineGrouping :
          /\ IsValidDate(d)
          /\ request = [op |-> "_get_period_key", date |-> d, grouping |-> g]
    /\ response = NoResponse
    /\ ServicesConstructed

GetPeriodKey ==
    /\ request.op = "_get_period_key"
    /\ response = NoResponse
    /\ response' = [op |-> "_get_period_key", date |-> request.date,
                    grouping |-> request.grouping,
                    result |-> PeriodKey(request.date, request.grouping)]
    /\ UNCHANGED <<user_id, transactions, request, caller_filters, mockVars, sessionVars>>

NextPeriodKey == GetPeriodKey

SpecPeriodKey == InitPeriodKey /\ [][NextPeriodKey]_vars

(* ------------------------------------------------------------------ *)
(* Specification of the cash-flow calls                                *)
(* ------------------------------------------------------------------ *)

\* rows the transaction source may hold in the cash-flow specification
CashRows ==
    { Row(d, "income", "salary", 50) :
        d \in {Date(2024, 1, 18), Date(2024, 2, 5)} }
    \cup
    { Row(d, "expense", "groceries", a) :
        d \in {Date(2024, 1, 18), Date(2024, 2, 5)}, a \in {0 - 30, 20} }

\* [start_date, end_date] arguments of get_cash_flow_data
CashRanges ==
    { <<Date(2024, 1, 17), Date(2024, 1, 23)>>,
      <<Date(2024, 1, 10), Date(2024, 2, 10)>>,
      <<Date(2024, 1, 31), Date(2024, 2, 10)>>,
      <<Date(2023, 12, 29), Date(2024, 1, 20)>>,
      <<Date(2024, 1, 23), Date(2024, 1, 17)>> }

StartingBalances == {0, 1000}

\* values of date.today()
Todays == {Date(2024, 2, 10)}

MonthsBack == {1}

Init ==
    /\ user_id \in UserIds
    /\ transactions = <<>>
    /\ request = NoRequest
    /\ response = NoResponse
    /\ ServicesConstructed

InsertRow(txn) ==
    /\ request = NoRequest
    /\ Len(transactions) < MaxTxns
    /\ transactions' = Append(transactions, txn)
    /\ UNCHANGED <<user_id, request, response, caller_filters, mockVars, sessionVars>>

\* the call returns: request and response are discarded
Return ==
    /\ request # NoRequest
    /\ request' = NoRequest
    /\ response' = NoResponse
    /\ UNCHANGED <<user_id, transactions, caller_filters, mockVars, sessionVars>>

CallGetCashFlowData(grouping, range, starting_balance) ==
    /\ request = NoRequest
    /\ ~IsMockUser(user_id)
    /\ request' = [op |-> "get_cash_flow_data", grouping |-> grouping,
                   start_date |-> range[1], end_date |-> range[2],
                   starting_balance |-> starting_balance]
    /\ response' = [op |-> "get_cash_flow_data"] @@
                   GetCashFlowData(transactions, grouping, range[1], range[2],
                                   starting_balance)
    /\ UNCHANGED <<user_id, transactions, caller_filters, mockVars, sessionVars>>

CallGetCashFlow(grouping, months_back, starting_balance, today) ==
    /\ request = NoRequest
    /\ request' = [op |-> "get_cash_flow", grouping |-> grouping,
                   months_back |-> months_back,
                   starting_balance |-> starting_balance, today |-> today]
    /\ response' = GetCashFlow(user_id, transactions, grouping, months_back,
                               starting_balance, today)
    /\ UNCHANGED <<user_id, transactions, caller_filters, mockVars, sessionVars>>

NextCashFlow ==
    \/ \E txn \in CashRows : InsertRow(txn)
    \/ \E g \in TimelineGrouping, r \in CashRanges, b \in StartingBalances :
          CallGetCashFlowData(g, r, b)
    \/ \E g \in TimelineGrouping, m \in MonthsBack, b \in StartingBalances,
          t \in Todays :
          CallGetCashFlow(g, m, b, t)
    \/ Return

SpecCashFlow == Init /\ [][NextCashFlow]_vars

\* the points of the cash-flow result the call in progress returned, if any
HasCashFlowResult ==
    /\ response.op \in {"get_cash_flow_data", "get_cash_flow"}
    /\ response.status = "ok"

CashFlowPoints ==
    IF response.op = "get_cash_flow_data" THEN response.data
    ELSE response.cash_flow_points

(* ------------------------------------------------------------------ *)
(* Specification of the timeline and expense summaries                 *)
(* ------------------------------------------------------------------ *)

\* rows the transaction source may hold in the summaries specification:
\* expenses stored negative as TransactionsService stores them, and two rows
\* with a positive expense amount as the repositories' tests supply them
SummaryRows ==
    { Row(Date(2024, 1, 5), "income", "salary", 1000),
      Row(Date(2024, 1, 2), "expense", "food", 0 - 30),
      Row(Date(2024, 1, 9), "expense", "food", 0 - 20),
      Row(Date(2024, 1, 2), "expense", "transport", 0 - 20),
      Row(Date(2024, 1, 9), "expense", "transport", 30),
      Row(Date(2024, 1, 2), "expense", "food", 20) }

\* value of date.today() in the summaries specification
SummaryToday == Date(2024, 1, 20)

January == <<Date(2024, 1, 1), Date(2024, 1, 31)>>

\* filters of the timeline calls
SummaryTimelineFilters ==
    { TimelineFilters(Some(January[1]), Some(January[2]), g, <<>>, TRUE, TRUE,
                      None, None) : g \in TimelineGrouping }
    \cup
    { TimelineFilters(None, None, "daily", <<>>, TRUE, TRUE, None, None),
      TimelineFilters(Some(January[1]), Some(January[2]), "daily", <<>>,
                      FALSE, TRUE, None, None),
      TimelineFilters(Some(Date(2024, 1, 3)), Some(January[2]), "weekly",
                      <<"food">>, TRUE, TRUE, None, None) }

\* filters of the expense-summary calls
SummaryExpenseFilters ==
    { ExpenseFilters(Some(January[1]), Some(January[2]), <<>>, None, None, "monthly"),
      ExpenseFilters(None, None, <<>>, None, None, "yearly"),
      ExpenseFilters(Some(January[1]), Some(Date(2024, 1, 8)), <<"food">>,
                     None, None, "weekly") }

Limits == {1, 10}

CallGetTimelineData(filters) ==
    /\ request = NoRequest
    /\ ~IsMockUser(user_id)
    /\ request' = [op |-> "get_timeline_data", filters |-> filters]
    /\ response' = [op |-> "get_timeline_data", status |-> "ok",
                    data |-> GetTimelineData(transactions, filters)]
    /\ UNCHANGED <<user_id, transactions, caller_filters, mockVars, sessionVars>>

CallGetTimeline(filters, today) ==
    /\ request = NoRequest
    /\ request' = [op |-> "get_timeline", filters |-> filters, today |-> today]
    /\ response' = GetTimeline(user_id, transactions, filters, today)
    /\ UNCHANGED <<user_id, transactions, caller_filters, mockVars, sessionVars>>

CallGetExpenseSummaryData(filters) ==
    /\ request = NoRequest
    /\ ~IsMockUser(user_id)
    /\ request' = [op |-> "get_expense_summary_data", filters |-> filters]
    /\ response' = [op |-> "get_expense_summary_data", status |-> "ok"] @@
                   GetExpenseSummaryData(transactions, filters)
    /\ UNCHANGED <<user_id, transactions, caller_filters, mockVars, sessionVars>>

CallGetExpenseSummary(filters, today) ==
    /\ request = NoRequest
    /\ request' = [op |-> "get_expense_summary", filters |-> filters,
                   today |-> today]
    /\ response' = GetExpenseSummary(user_id, transactions, filters, today)
    /\ UNCHANGED <<user_id, transactions, caller_filters, mockVars, sessionVars>>

CallGetExpenseTrendsData(period, range) ==
    /\ request = NoRequest
    /\ ~IsMockUser(user_id)
    /\ request' = [op |-> "get_expense_trends_data", period |-> period,
                   start_date |-> range[1], end_date |-> range[2]]
    /\ response' = [op |-> "get_expense_trends_data"] @@
                   GetExpenseTrendsData(transactions, period, range[1], range[2])
    /\ UNCHANGED <<user_id, transactions, caller_filters, mockVars, sessionVars>>

CallGetExpenseTrends(period, months_back, today) ==
    /\ request = NoRequest
    /\ ~IsMockUser(user_id)
    /\ request' = [op |-> "get_expense_trends", period |-> period,
                   months_back |-> months_back, today |-> today]
    /\ response' = GetExpenseTrends(transactions, period, months_back, today)
    /\ UNCHANGED <<user_id, transactions, caller_filters, mockVars, sessionVars>>

CallGetTopCategories(limit) ==
    /\ request = NoRequest
    /\ ~IsMockUser(user_id)
    /\ request' = [op |-> "get_top_categories", limit |-> limit]
    /\ response' = [op |-> "get_top_categories", status |-> "ok",
                    categories |-> GetTopCategories(transactions, limit, None, None)]
    /\ UNCHANGED <<user_id, transactions, caller_filters, mockVars, sessionVars>>

CallGetTopExpenseCategories(limit, period, today) ==
    /\ request = NoRequest
    /\ ~IsMockUser(user_id)
    /\ request' = [op |-> "get_top_expense_categories", limit |-> limit,
                   period |-> period, today |-> today]
    /\ response' = GetTopExpenseCategories(transactions, limit, period, today)
    /\ UNCHANGED <<user_id, transactions, caller_filters, mockVars, sessionVars>>

NextSummary ==
    \/ \E txn \in SummaryRows : InsertRow(txn)
    \/ \E f \in SummaryTimelineFilters : CallGetTimelineData(f)
    \/ \E f \in SummaryTimelineFilters : CallGetTimeline(f, SummaryToday)
    \/ \E f \in SummaryExpenseFilters : CallGetExpenseSummaryData(f)
    \/ \E f \in SummaryExpenseFilters : CallGetExpenseSummary(f, SummaryToday)
    \/ \E p \in ExpensePeriod : CallGetExpenseTrendsData(p, January)
    \/ \E p \in ExpensePeriod, m \in MonthsBack :
          CallGetExpenseTrends(p, m, SummaryToday)
    \/ \E l \in Limits : CallGetTopCategories(l)
    \/ \E l \in Limits : CallGetTopExpenseCategories(l, "monthly", SummaryToday)
    \/ Return

SpecSummary == Init /\ [][NextSummary]_vars

(* ------------------------------------------------------------------ *)
(* Specification of the anomaly detection                              *)
(* ------------------------------------------------------------------ *)

\* tables of any rows of WindowRows hold at most MaxWindowRows rows
MaxWindowRows == 4

\* tables of expenses of two amounts hold at most MaxPairRows rows
MaxPairRows == 11

\* expenses inside the window, an income inside it, an expense before it
WindowRows ==
    { Row(Date(2024, 1, 10), "expense", "food", a) : a \in {20, 22, 25} }
    \cup
    { Row(Date(2024, 1, 12), "expense", "shopping", 700),
      Row(Date(2024, 1, 5), "income", "salary", 1000),
      Row(Date(2023, 11, 1), "expense", "shopping", 700) }

\* the two amounts of a larger table: amounts as the repository's test
\* supplies them, as TransactionsService stores them (negative), and of both
\* signs (an update of the amount keeps whatever sign it is given)
AmountPairs == { {20, 700}, {0 - 100, 0 - 1}, {0 - 1, 5} }

PairRows(pair) == { Row(Date(2024, 1, 10), "expense", "food", a) : a \in pair }

AnomalyDaysBack == {30}

InitAnomalies ==
    /\ user_id = "user123"
    /\ transactions = <<>>
    /\ request = NoRequest
    /\ response = NoResponse
    /\ ServicesConstructed

InsertAnomalyRow(txn) ==
    /\ request = NoRequest
    /\ LET stored == Append(transactions, txn)
           within(rows) == \A i \in 1..Len(stored) : stored[i] \in rows
       IN  \/ Len(stored) <= MaxWindowRows /\ within(WindowRows)
           \/ Len(stored) <= MaxPairRows
              /\ \E pair \in AmountPairs : within(PairRows(pair))
    /\ transactions' = Append(transactions, txn)
    /\ UNCHANGED <<user_id, request, response, caller_filters, mockVars, sessionVars>>

CallGetAnomalies(days_back, today, tie_order, rounded_up) ==
    /\ request = NoRequest
    /\ ~IsMockUser(user_id)
    /\ request' = [op |-> "get_anomalies", days_back |-> days_back,
                   today |-> today, tie_order |-> tie_order,
                   rounded_up |-> rounded_up]
    /\ response' = [op |-> "get_anomalies"] @@
                   GetAnomalies(transactions, days_back, today, tie_order, rounded_up)
    /\ UNCHANGED <<user_id, transactions, caller_filters, mockVars, sessionVars>>

NextAnomalies ==
    \/ \E txn \in WindowRows \cup UNION { PairRows(pair) : pair \in AmountPairs } :
          InsertAnomalyRow(txn)
    \/ \E d \in AnomalyDaysBack, t \in TieOrders, r \in BOOLEAN :
          CallGetAnomalies(d, SummaryToday, t, r)
    \/ Return

SpecAnomalies == InitAnomalies /\ [][NextAnomalies]_vars

\* the expenses of the window of the call in progress, as stored
WindowExpenses ==
    SelectSeq(WithIds(transactions, 1), LAMBDA txn :
        /\ txn.type = "expense"
        /\ DateLE(AddDays(request.today, 0 - request.days_back), FromIsoFormat(txn.date))
        /\ DateLE(FromIsoFormat(txn.date), request.today))

HasAnomalies ==
    /\ response.op = "get_anomalies"
    /\ response.status = "ok"

AnomalyIds ==
    { response.anomalies[i].transaction_id : i \in 1..Len(response.anomalies) }

(* ------------------------------------------------------------------ *)
(* Specification of the analytics calls on small tables                *)
(* ------------------------------------------------------------------ *)

\* rows the transaction source may hold in the analytics specification:
\* expenses of three consecutive days and an income
AnalyticsRows ==
    { Row(Date(2024, 1, 17), "expense", "food", 0 - 10),
      Row(Date(2024, 1, 18), "expense", "food", 0 - 15),
      Row(Date(2024, 1, 19), "expense", "food", 0 - 12),
      Row(Date(2024, 1, 17), "expense", "transport", 0 - 5),
      Row(Date(2024, 1, 18), "income", "salary", 1000) }

\* the days argument of get_spending_velocity
VelocityDays == {7, 30}

\* values of date.today() for get_cash_flow
AnalyticsTodays == {SummaryToday, Date(2024, 3, 1)}

CallGetSpendingVelocity(days, today) ==
    /\ request = NoRequest
    /\ request' = [op |-> "get_spending_velocity", days |-> days, today |-> today]
    /\ response' = GetSpendingVelocity(user_id, transactions, days, today)
    /\ UNCHANGED <<user_id, transactions, caller_filters, mockVars, sessionVars>>

NextAnalytics ==
    \/ \E txn \in AnalyticsRows : InsertRow(txn)
    \/ \E d \in VelocityDays : CallGetSpendingVelocity(d, SummaryToday)
    \/ \E f \in SummaryTimelineFilters : CallGetTimeline(f, SummaryToday)
    \/ \E f \in SummaryExpenseFilters : CallGetExpenseSummary(f, SummaryToday)
    \/ \E g \in TimelineGrouping, m \in MonthsBack, b \in StartingBalances,
          t \in AnalyticsTodays :
          CallGetCashFlow(g, m, b, t)
    \/ \E d \in AnomalyDaysBack, t \in TieOrders, r \in BOOLEAN :
          CallGetAnomalies(d, SummaryToday, t, r)
    \/ Return

SpecAnalytics == Init /\ [][NextAnalytics]_vars

HasVelocity ==
    /\ response.op = "get_spending_velocity"
    /\ response.status = "ok"

\* the daily buckets get_spending_velocity got from get_timeline
VelocityPoints ==
    GetTimeline(user_id, transactions,
        TimelineFilters(Some(AddDays(request.today, 0 - request.days)),
                        Some(request.today), "daily", <<>>, FALSE, TRUE, None, None),
        request.today).data_points

\* the amount spent in a bucket
Spent(point) == Abs(point.total_expenses)

RECURSIVE SumSpent(_)
SumSpent(points) ==
    IF points = <<>> THEN 0 ELSE Spent(Head(points)) + SumSpent(Tail(points))

\* q is the quotient sum / count rounded to 10^-DecimalPlaces
IsRoundedQuotient(q, sum, count) ==
    LET error == q * count - sum * DecimalOne
    IN  2 * Abs(error) <= count

(* ------------------------------------------------------------------ *)
(* Specification of the summary calls on a filters object the caller   *)
(* keeps                                                               *)
(* ------------------------------------------------------------------ *)

\* rows the transaction source may hold in this specification
FilterRows ==
    { Row(Date(2024, 1, 5), "income", "salary", 1000),
      Row(Date(2024, 1, 9), "expense", "food", 0 - 20),
      Row(Date(2024, 2, 2), "expense", "food", 0 - 30) }

\* values of date.today() on the days the calls are made
FilterTodays == {Date(2024, 1, 20), Date(2024, 2, 10)}

\* TimelineFilters objects a caller builds: no dates, a valid range, an end
\* date before the start date, and a start date alone
CallerTimelineFilters ==
    { TimelineFilters(None, None, "daily", <<>>, TRUE, TRUE, None, None),
      TimelineFilters(Some(January[1]), Some(January[2]), "monthly", <<>>,
                      TRUE, TRUE, None, None),
      TimelineFilters(Some(January[2]), Some(January[1]), "daily", <<>>,
                      TRUE, TRUE, None, None),
      TimelineFilters(Some(Date(2024, 2, 1)), None, "daily", <<>>,
                      TRUE, TRUE, None, None) }

\* ExpenseFilters objects a caller builds: no dates, a valid range, and an
\* end date before the start date
CallerExpenseFilters ==
    { ExpenseFilters(None, None, <<>>, None, None, "monthly"),
      ExpenseFilters(Some(January[1]), Some(January[2]), <<>>, None, None, "monthly"),
      ExpenseFilters(Some(January[2]), Some(January[1]), <<>>, None, None, "monthly") }

IsTimelineFilters(object) == "grouping" \in DOMAIN object

IsExpenseFilters(object) == "period" \in DOMAIN object

\* the caller builds a filters object (TimelineFilters(...) / ExpenseFilters(...))
NewFilters(object) ==
    /\ request = NoRequest
    /\ caller_filters' = Some(object)
    /\ UNCHANGED <<user_id, transactions, request, response, mockVars, sessionVars>>

\* TimelineService.get_timeline on the caller's object: both paths assign
\* filters.start_date and filters.end_date on the object they were passed
CallGetTimelineOnObject(today) ==
    /\ request = NoRequest
    /\ caller_filters # None
    /\ IsTimelineFilters(caller_filters[1])
    /\ request' = [op |-> "get_timeline", filters |-> caller_filters[1],
                   today |-> today]
    /\ response' = GetTimeline(user_id, transactions, caller_filters[1], today)
    /\ caller_filters' = Some(WithDefaultRange(caller_filters[1], today))
    /\ UNCHANGED <<user_id, transactions, mockVars, sessionVars>>

\* ExpenseService.get_expense_summary on the caller's object: the default
\* range is assigned on the object before the mock-user check
CallGetExpenseSummaryOnObject(today) ==
    /\ request = NoRequest
    /\ caller_filters # None
    /\ IsExpenseFilters(caller_filters[1])
    /\ request' = [op |-> "get_expense_summary", filters |-> caller_filters[1],
                   today |-> today]
    /\ response' = GetExpenseSummary(user_id, transactions, caller_filters[1], today)
    /\ caller_filters' = Some(WithDefaultExpenseRange(caller_filters[1], today))
    /\ UNCHANGED <<user_id, transactions, mockVars, sessionVars>>

NextFilters ==
    \/ \E txn \in FilterRows : InsertRow(txn)
    \/ \E object \in CallerTimelineFilters \cup CallerExpenseFilters :
          NewFilters(object)
    \/ \E t \in FilterTodays : CallGetTimelineOnObject(t)
    \/ \E t \in FilterTodays : CallGetExpenseSummaryOnObject(t)
    \/ Return

SpecFilters == Init /\ [][NextFilters]_vars

\* the call in progress was passed filters with an end date before the
\* start date, after the defaults for missing dates are filled in
RangeOf(object, today) ==
    IF IsTimelineFilters(object) THEN WithDefaultRange(object, today)
    ELSE WithDefaultExpenseRange(object, today)

HasInvertedRange ==
    /\ request.op \in {"get_timeline", "get_expense_summary"}
    /\ LET range == RangeOf(request.filters, request.today)
       IN  DateLT(range.end_date[1], range.start_date[1])

(* ------------------------------------------------------------------ *)
(* Specification of threads calling the shared MockDataService         *)
(* ------------------------------------------------------------------ *)

\* mock_users.json: the mock users in file order
MockUsersFile == <<"user_1_young_professional">>

\* contents the transactions file of the mock user may have
MockFiles ==
    { <<>>,
      <<Row(Date(2024, 1, 5), "income", "salary", 1000)>>,
      <<Row(Date(2024, 1, 5), "income", "salary", 1000),
        Row(Date(2024, 1, 9), "expense", "food", 20)>> }

InitMock ==
    /\ user_id \in MockUserIds
    /\ transactions \in MockFiles
    /\ request = NoRequest
    /\ response = NoResponse
    /\ ServicesConstructed

\* the thread t is at this line of get_mock_transactions / get_mock_users
At(t, pc) == threads[t].pc = pc

\* the thread t moves to a line
Goto(t, pc) == threads' = [threads EXCEPT ![t].pc = pc]

\* a thread calls get_mock_transactions(user_id)
CallGetMockTransactions(t) ==
    /\ At(t, "idle")
    /\ threads' = [threads EXCEPT ![t] = [pc |-> "tx_check", user_id |-> user_id]]
    /\ UNCHANGED <<user_id, transactions, request, response, caller_filters,
                   users_cache, user_lists, transactions_cache, sessionVars>>

\* if self._transactions_cache is None:
TransactionsCheck(t) ==
    /\ At(t, "tx_check")
    /\ Goto(t, IF transactions_cache = None THEN "tx_init" ELSE "tx_return")
    /\ UNCHANGED <<user_id, transactions, request, response, caller_filters,
                   users_cache, user_lists, transactions_cache, sessionVars>>

\* self._transactions_cache = {}
TransactionsInit(t) ==
    /\ At(t, "tx_init")
    /\ transactions_cache' = Some(EmptyDict)
    /\ Goto(t, "users_check")
    /\ UNCHANGED <<user_id, transactions, request, response, caller_filters,
                   users_cache, user_lists, sessionVars>>

\* get_mock_users: if self._users_cache is None:
UsersCheck(t) ==
    /\ At(t, "users_check")
    /\ Goto(t, IF users_cache = None THEN "users_init" ELSE "users_return")
    /\ UNCHANGED <<user_id, transactions, request, response, caller_filters,
                   users_cache, user_lists, transactions_cache, sessionVars>>

\* users_data = self._load_json_file("mock_users.json");
\* self._users_cache = [] (a new list object)
UsersInit(t) ==
    /\ At(t, "users_init")
    /\ user_lists' = Append(user_lists, <<>>)
    /\ users_cache' = Some(Len(user_lists) + 1)
    /\ threads' = [threads EXCEPT ![t] =
                      [pc |-> "users_append", user_id |-> @.user_id, next |-> 1]]
    /\ UNCHANGED <<user_id, transactions, request, response, caller_filters,
                   transactions_cache, sessionVars>>

\* for user_data in users_data: self._users_cache.append(user), on the list
\* object the attribute refers to at that moment
UsersAppend(t) ==
    /\ At(t, "users_append")
    /\ IF threads[t].next <= Len(MockUsersFile)
       THEN /\ user_lists' = [user_lists EXCEPT ![users_cache[1]] =
                                 Append(@, MockUsersFile[threads[t].next])]
            /\ threads' = [threads EXCEPT ![t].next = @ + 1]
       ELSE /\ threads' = [threads EXCEPT ![t] =
                              [pc |-> "users_return", user_id |-> @.user_id]]
            /\ UNCHANGED user_lists
    /\ UNCHANGED <<user_id, transactions, request, response, caller_filters,
                   users_cache, transactions_cache, sessionVars>>

\* return self._users_cache; users = self.get_mock_users(): the caller keeps
\* a reference to the list object
UsersReturn(t) ==
    /\ At(t, "users_return")
    /\ threads' = [threads EXCEPT ![t] =
                      [pc |-> "tx_loop", user_id |-> @.user_id,
                       users |-> users_cache[1], next |-> 1]]
    /\ UNCHANGED <<user_id, transactions, request, response, caller_filters,
                   users_cache, user_lists, transactions_cache, sessionVars>>

\* for user in users: the next element of the list object, if it has one;
\* transactions_data = self._load_json_file(filename) and the Transaction
\* objects built from it
TransactionsLoop(t) ==
    /\ At(t, "tx_loop")
    /\ IF threads[t].next <= Len(user_lists[threads[t].users])
       THEN threads' = [threads EXCEPT ![t] =
                [pc |-> "tx_store", user_id |-> @.user_id, users |-> @.users,
                 next |-> @.next,
                 user |-> user_lists[@.users][@.next],
                 loaded |-> MockTransactions(transactions)]]
       ELSE threads' = [threads EXCEPT ![t] =
                [pc |-> "tx_return", user_id |-> @.user_id]]
    /\ UNCHANGED <<user_id, transactions, request, response, caller_filters,
                   users_cache, user_lists, transactions_cache, sessionVars>>

\* self._transactions_cache[user.id] = transactions
TransactionsStore(t) ==
    /\ At(t, "tx_store")
    /\ LET cache == transactions_cache[1]
           key == threads[t].user
       IN  transactions_cache' =
               Some([k \in DOMAIN cache \cup {key} |->
                        IF k = key THEN threads[t].loaded ELSE cache[k]])
    /\ threads' = [threads EXCEPT ![t] =
                      [pc |-> "tx_loop", user_id |-> @.user_id, users |-> @.users,
                       next |-> @.next + 1]]
    /\ UNCHANGED <<user_id, transactions, request, response, caller_filters,
                   users_cache, user_lists, sessionVars>>

\* return self._transactions_cache.get(user_id, [])
TransactionsReturn(t) ==
    /\ At(t, "tx_return")
    /\ LET cache == transactions_cache[1]
           key == threads[t].user_id
       IN  threads' = [threads EXCEPT ![t] =
               [pc |-> "returned", user_id |-> key,
                result |-> IF key \in DOMAIN cache THEN cache[key] ELSE <<>>]]
    /\ UNCHANGED <<user_id, transactions, request, response, caller_filters,
                   users_cache, user_lists, transactions_cache, sessionVars>>

NextMock ==
    \E t \in Threads :
        \/ CallGetMockTransactions(t)
        \/ TransactionsCheck(t)
        \/ TransactionsInit(t)
        \/ UsersCheck(t)
        \/ UsersInit(t)
        \/ UsersAppend(t)
        \/ UsersReturn(t)
        \/ TransactionsLoop(t)
        \/ TransactionsStore(t)
        \/ TransactionsReturn(t)

SpecMock == InitMock /\ [][NextMock]_vars

\* the threads whose call of get_mock_transactions has returned
Returned == { t \in Threads : threads[t].pc = "returned" }

(* ------------------------------------------------------------------ *)
(* Specification of the transaction service                            *)
(* ------------------------------------------------------------------ *)

\* the day after SummaryToday
Tomorrow == AddDays(SummaryToday, 1)

\* TransactionCreate objects passed to create_transaction
NewTransactions ==
    { TransactionCreate(a, "groceries", "expense", d) :
        a \in {0, 50}, d \in {SummaryToday, Tomorrow} }
    \cup
    { TransactionCreate(0 - 50, "salary", "income", SummaryToday) }

\* TransactionUpdate objects passed to update_transaction
TransactionUpdates ==
    { TransactionUpdate(a, None, None, None) : a \in {Some(0), Some(75)} }
    \cup
    { TransactionUpdate(None, None, Some("income"), None),
      TransactionUpdate(None, Some("dining"), None, Some(Tomorrow)) }

\* transaction ids passed to update_transaction: the stored ones and one more
TransactionIds == 1..(MaxTxns + 1)

CallCreateTransaction(transaction_data, today) ==
    /\ request = NoRequest
    /\ Len(transactions) < MaxTxns
    /\ LET result == CreateTransaction(transactions, transaction_data, today)
       IN  /\ transactions' = result.rows
           /\ response' = [f \in DOMAIN result \ {"rows"} |-> result[f]]
    /\ request' = [op |-> "create_transaction",
                   transaction_data |-> transaction_data, today |-> today]
    /\ UNCHANGED <<user_id, caller_filters, mockVars, sessionVars>>

CallUpdateTransaction(transaction_id, update_data, today) ==
    /\ request = NoRequest
    /\ LET result == UpdateTransaction(transactions, transaction_id, update_data, today)
       IN  /\ transactions' = result.rows
           /\ response' = [f \in DOMAIN result \ {"rows"} |-> result[f]]
    /\ request' = [op |-> "update_transaction", transaction_id |-> transaction_id,
                   update_data |-> update_data, today |-> today]
    /\ UNCHANGED <<user_id, caller_filters, mockVars, sessionVars>>

NextTransactions ==
    \/ \E data \in NewTransactions : CallCreateTransaction(data, SummaryToday)
    \/ \E id \in TransactionIds, data \in TransactionUpdates :
          CallUpdateTransaction(id, data, SummaryToday)
    \/ Return

SpecTransactions == Init /\ [][NextTransactions]_vars

(* ------------------------------------------------------------------ *)
(* Specification of the session service                                *)
(* ------------------------------------------------------------------ *)

\* the clock is followed up to this time
MaxTime == 4

SessionIds == {"session-a", "session-b"}

\* datetime.now() advances between calls
Tick ==
    /\ now < MaxTime
    /\ now' = now + 1
    /\ UNCHANGED <<user_id, transactions, request, response, caller_filters,
                   mockVars, chat_histories, session_timestamps,
                   max_history_length>>

\* the history of a session, empty when it has none
HistoryOf(session_id) ==
    IF session_id \in DOMAIN chat_histories THEN chat_histories[session_id]
    ELSE <<>>

\* add_to_history(session_id, question, answer); the question asked is named
\* by the time it is asked at
CallAddToHistory(session_id) ==
    /\ request = NoRequest
    /\ Len(HistoryOf(session_id)) < MaxEntries
    /\ LET after == AddToHistory(chat_histories, session_timestamps,
                                 max_history_length, session_id,
                                 now, "answer", now)
       IN  /\ chat_histories' = after.chat_histories
           /\ session_timestamps' = after.session_timestamps
    /\ request' = [op |-> "add_to_history", session_id |-> session_id,
                   question |-> now, answer |-> "answer"]
    /\ response' = [op |-> "add_to_history", status |-> "ok"]
    /\ UNCHANGED <<user_id, transactions, caller_filters, mockVars, now,
                   max_history_length>>

CallGetChatHistory(session_id) ==
    /\ request = NoRequest
    /\ LET after == CleanupExpiredSessions(chat_histories, session_timestamps, now)
       IN  /\ chat_histories' = after.chat_histories
           /\ session_timestamps' = after.session_timestamps
           /\ response' = [op |-> "get_chat_history", status |-> "ok",
                           result |-> IF session_id \in DOMAIN after.chat_histories
                                      THEN after.chat_histories[session_id]
                                      ELSE <<>>]
    /\ request' = [op |-> "get_chat_history", session_id |-> session_id]
    /\ UNCHANGED <<user_id, transactions, caller_filters, mockVars, now,
                   max_history_length>>

CallClearSession(session_id) ==
    /\ request = NoRequest
    /\ LET after == ClearSession(chat_histories, session_timestamps, session_id)
       IN  /\ chat_histories' = after.chat_histories
           /\ session_timestamps' = after.session_timestamps
           /\ response' = [op |-> "clear_session", status |-> "ok",
                           result |-> after.result]
    /\ request' = [op |-> "clear_session", session_id |-> session_id]
    /\ UNCHANGED <<user_id, transactions, caller_filters, mockVars, now,
                   max_history_length>>

CallGetActiveSessions ==
    /\ request = NoRequest
    /\ LET after == CleanupExpiredSessions(chat_histories, session_timestamps, now)
       IN  /\ chat_histories' = after.chat_histories
           /\ session_timestamps' = after.session_timestamps
           /\ response' = [op |-> "get_active_sessions", status |-> "ok",
                           result |-> DOMAIN after.chat_histories]
    /\ request' = [op |-> "get_active_sessions"]
    /\ UNCHANGED <<user_id, transactions, caller_filters, mockVars, now,
                   max_history_length>>

CallGetSessionStats ==
    /\ request = NoRequest
    /\ LET after == CleanupExpiredSessions(chat_histories, session_timestamps, now)
       IN  /\ chat_histories' = after.chat_histories
           /\ session_timestamps' = after.session_timestamps
           /\ response' =
                  [op |-> "get_session_stats", status |-> "ok",
                   active_sessions |-> Cardinality(DOMAIN after.chat_histories),
                   total_conversations |->
                       TotalConversations(after.chat_histories,
                                          DOMAIN after.chat_histories),
                   max_history_length |-> max_history_length]
    /\ request' = [op |-> "get_session_stats"]
    /\ UNCHANGED <<user_id, transactions, caller_filters, mockVars, now,
                   max_history_length>>

InitSessions ==
    /\ user_id = "user123"
    /\ transactions = <<>>
    /\ request = NoRequest
    /\ response = NoResponse
    /\ MockDataServiceConstructed
    /\ \E length \in {0, MaxHistoryLength} : SessionServiceConstructed(length)

NextSessions ==
    \/ Tick
    \/ \E s \in SessionIds : CallAddToHistory(s)
    \/ \E s \in SessionIds : CallGetChatHistory(s)
    \/ \E s \in SessionIds : CallClearSession(s)
    \/ CallGetActiveSessions
    \/ CallGetSessionStats
    \/ Return

SpecSessions == InitSessions /\ [][NextSessions]_vars

(* ------------------------------------------------------------------ *)
(* C1                                                                  *)
(* ------------------------------------------------------------------ *)

\* C1: in every cash-flow result, of the repository and of the mock path, each
\* point opens at the closing balance of the point before it and the first
\* point opens at the starting balance; points without transactions included.
C1_BalancesChain ==
    HasCashFlowResult =>
        LET points == CashFlowPoints IN
        /\ (points # <<>> => points[1].opening_balance = request.starting_balance)
        /\ \A i \in 1..(Len(points) - 1) :
              /\ DateLT(points[i].date, points[i + 1].date)
              /\ points[i + 1].opening_balance = points[i].closing_balance

\* A repository result in which a point with transactions is followed by a
\* point without any, at a balance other than the starting balance.
C1_Witness ==
    /\ response.op = "get_cash_flow_data"
    /\ response.status = "ok"
    /\ \E i \in 1..(Len(response.data) - 1) :
          /\ response.data[i].transactions # <<>>
          /\ response.data[i + 1].transactions = <<>>
          /\ response.data[i + 1].opening_balance # request.starting_balance
          /\ response.data[i + 1].opening_balance = response.data[i].closing_balance

(* ------------------------------------------------------------------ *)
(* C2                                                                  *)
(* ------------------------------------------------------------------ *)

\* C2: every cash-flow point has net_change = total_income - total_expenses
\* and closing_balance = opening_balance + net_change.
C2_PointArithmetic ==
    HasCashFlowResult =>
        \A i \in 1..Len(CashFlowPoints) :
            LET point == CashFlowPoints[i] IN
            /\ point.net_change = point.total_income - point.total_expenses
            /\ point.closing_balance = point.opening_balance + point.net_change

\* Two adjacent points, both with income and expenses, from starting balance
\* 1000: the second closes at 1000 plus both net changes.
C2_Witness ==
    /\ response.op = "get_cash_flow_data"
    /\ response.status = "ok"
    /\ request.starting_balance = 1000
    /\ \E i \in 1..(Len(response.data) - 1) :
          /\ response.data[i].total_income > 0
          /\ response.data[i].total_expenses > 0
          /\ response.data[i + 1].total_expenses > 0
          /\ response.data[i].opening_balance = 1000
          /\ response.data[i].closing_balance = 1030
          /\ response.data[i + 1].closing_balance = 1010

(* ------------------------------------------------------------------ *)
(* C7                                                                  *)
(* ------------------------------------------------------------------ *)

\* every date d with start_date <= d <= end_date
DatesBetween(start_date, end_date) ==
    { FromOrdinal(o) : o \in ToOrdinal(start_date)..ToOrdinal(end_date) }

\* C7: for start_date <= end_date, get_cash_flow_data returns exactly one
\* point for each period that contains a date of [start_date, end_date], in
\* ascending order, none missing (the period of end_date and the periods
\* without transactions included).
C7_EveryPeriodOnce ==
    (/\ response.op = "get_cash_flow_data"
     /\ DateLE(request.start_date, request.end_date))
    => /\ response.status = "ok"
       /\ \A i \in 1..(Len(response.data) - 1) :
             DateLT(response.data[i].date, response.data[i + 1].date)
       /\ { response.data[i].date : i \in 1..Len(response.data) }
            = { PeriodKey(d, request.grouping) :
                  d \in DatesBetween(request.start_date, request.end_date) }

(* ------------------------------------------------------------------ *)
(* C5                                                                  *)
(* ------------------------------------------------------------------ *)

\* The calendar day before d, found on the calendar (no ordinal arithmetic).
PrevDay(d) ==
    IF d.day > 1 THEN [d EXCEPT !.day = d.day - 1]
    ELSE IF d.month > 1
         THEN Date(d.year, d.month - 1, DaysInMonth(d.year, d.month - 1))
    ELSE Date(d.year - 1, 12, 31)

RECURSIVE DaysBack(_, _)
DaysBack(d, k) == IF k = 0 THEN d ELSE DaysBack(PrevDay(d), k - 1)

\* Day of week by Sakamoto's rule: 0 is Sunday, 1 is Monday.
RefDayOfWeek(d) ==
    LET t == <<0, 3, 2, 5, 0, 3, 5, 1, 4, 6, 2, 4>>
        y == IF d.month < 3 THEN d.year - 1 ELSE d.year
    IN  (y + (y \div 4) - (y \div 100) + (y \div 400) + t[d.month] + d.day) % 7

RefBucketKey(d, g) ==
    IF g = "daily" THEN d
    ELSE IF g = "weekly"
         THEN CHOOSE k \in { DaysBack(d, i) : i \in 0..6 } : RefDayOfWeek(k) = 1
    ELSE IF g = "monthly" THEN Date(d.year, d.month, 1)
    ELSE Date(d.year, 1, 1)

\* C5: _get_period_key(d, g) is the reference bucket key of d: d itself for
\* daily, the Monday 0 to 6 days at or before d for weekly (also across a
\* month or year boundary), day 1 of d's month for monthly, 1 January of d's
\* year for yearly.
C5_PeriodKeyIsReference ==
    response.op = "_get_period_key" =>
        /\ response.result = RefBucketKey(response.date, response.grouping)
        /\ IsValidDate(response.result)
        /\ (response.grouping = "weekly" =>
               \E i \in 0..6 : response.result = DaysBack(response.date, i))

\* A weekly key that lies in the previous year has been computed.
C5_Witness ==
    /\ response.op = "_get_period_key"
    /\ response.grouping = "weekly"
    /\ response.result.year < response.date.year
    /\ response.result.month = 12

(* ------------------------------------------------------------------ *)
(* C3                                                                  *)
(* ------------------------------------------------------------------ *)

RECURSIVE SumCategoryAmounts(_)
SumCategoryAmounts(dict) ==
    IF dict = <<>> THEN 0
    ELSE Head(dict).total_amount + SumCategoryAmounts(Tail(dict))

\* C3: the category_totals returned by get_expense_summary sum exactly to
\* total_expenses, and in every period returned by get_expense_trends the
\* category_amounts sum exactly to the period's total_amount.
C3_CategoryTotalsSumToTotal ==
    /\ response.op = "get_expense_summary_data" =>
          SumCategoryAmounts(response.category_totals) = response.total_expenses
    /\ (response.op = "get_expense_trends_data" /\ response.status = "ok") =>
          \A i \in 1..Len(response.trends) :
              SumCategoryAmounts(response.trends[i].category_amounts)
                  = response.trends[i].total_amount

\* A summary over three fetched transactions with two expense categories and
\* a total that is not zero.
C3_Witness ==
    /\ response.op = "get_expense_summary_data"
    /\ response.transaction_count = 3
    /\ Len(response.category_totals) = 2
    /\ response.total_expenses # 0
    /\ \E i \in 1..2 : response.category_counts[i].transaction_count = 2

(* ------------------------------------------------------------------ *)
(* C4                                                                  *)
(* ------------------------------------------------------------------ *)

\* every ordering of the elements of a sequence
Reorderings(seq) ==
    LET n == Len(seq)
        perms == { q \in [1..n -> 1..n] :
                     \A i, j \in 1..n : q[i] = q[j] => i = j }
    IN  { [i \in 1..n |-> seq[q[i]]] : q \in perms }

BucketTotals(data) ==
    { [date |-> data[i].date,
       total_income |-> data[i].total_income,
       total_expenses |-> data[i].total_expenses,
       net_amount |-> data[i].net_amount,
       transaction_count |-> data[i].transaction_count] : i \in 1..Len(data) }

OverallTotals(summary) ==
    [total_income |-> summary.total_income,
     total_expenses |-> summary.total_expenses,
     net_amount |-> summary.net_amount,
     transaction_count |-> summary.transaction_count,
     category_totals |->
         { summary.category_totals[i] : i \in 1..Len(summary.category_totals) },
     category_counts |->
         { summary.category_counts[i] : i \in 1..Len(summary.category_counts) }]

\* C4: aggregating any reordering of the fetched transactions gives the same
\* set of timeline buckets with the same total_income, total_expenses,
\* net_amount and transaction_count, and the same overall expense-summary
\* totals, counts and category totals.
C4_OrderIndependent ==
    /\ response.op = "get_timeline_data" =>
          \A other \in Reorderings(TimelineQuery(transactions, request.filters)) :
              LET data == AggregateTimeline(other, request.filters.grouping)
              IN  /\ Len(data) = Len(response.data)
                  /\ BucketTotals(data) = BucketTotals(response.data)
    /\ response.op = "get_expense_summary_data" =>
          \A other \in Reorderings(ExpenseSummaryQuery(transactions, request.filters)) :
              OverallTotals(AggregateExpenses(other)) = OverallTotals(response)

\* A timeline bucket that holds two expenses of different amounts.
C4_Witness ==
    /\ response.op = "get_timeline_data"
    /\ \E i \in 1..Len(response.data) :
          LET txns == response.data[i].expense_transactions
          IN  /\ Len(txns) = 2
              /\ txns[1].amount # txns[2].amount
              /\ response.data[i].total_expenses = txns[1].amount + txns[2].amount

(* ------------------------------------------------------------------ *)
(* C6                                                                  *)
(* ------------------------------------------------------------------ *)

\* the rows follow the signed convention: expenses <= 0, income >= 0
SignedConvention(rows) ==
    \A i \in 1..Len(rows) :
        /\ (rows[i].type = "expense" => rows[i].amount <= 0)
        /\ (rows[i].type = "income" => rows[i].amount >= 0)

RECURSIVE SumMagnitudes(_)
SumMagnitudes(txns) ==
    IF txns = <<>> THEN 0
    ELSE Abs(Head(txns).amount) + SumMagnitudes(Tail(txns))

\* C6: when the stored rows follow the signed convention, every bucket of
\* get_timeline_data has total_expenses equal to the sum of the magnitudes of
\* its expenses and net_amount equal to total_income minus that sum.
C6_ExpensesAreMagnitudes ==
    (response.op = "get_timeline_data" /\ SignedConvention(transactions)) =>
        \A i \in 1..Len(response.data) :
            LET magnitudes == SumMagnitudes(response.data[i].expense_transactions)
            IN  /\ response.data[i].total_expenses = magnitudes
                /\ response.data[i].net_amount
                       = response.data[i].total_income - magnitudes

(* ------------------------------------------------------------------ *)
(* C8                                                                  *)
(* ------------------------------------------------------------------ *)

HasTimeline ==
    /\ response.op = "get_timeline"
    /\ response.status = "ok"

\* the rows get_timeline aggregates: the fetched rows of the repository, the
\* rows of the date range on the mock path
TimelineRows ==
    IF response.path = "mock"
    THEN RowsInRange(transactions, response.date_range.start_date,
                     response.date_range.end_date)
    ELSE TimelineQuery(transactions, response.filters)

PeriodsInRange ==
    { PeriodKey(d, response.grouping) :
        d \in DatesBetween(response.date_range.start_date,
                           response.date_range.end_date) }

PointDates == { response.data_points[i].date : i \in 1..Len(response.data_points) }

HasExpenseSummary ==
    /\ response.op = "get_expense_summary"
    /\ response.status = "ok"

RECURSIVE SumPercentages(_)
SumPercentages(breakdown) ==
    IF breakdown = <<>> THEN 0
    ELSE Head(breakdown).percentage_of_total + SumPercentages(Tail(breakdown))

\* C9: in the category_breakdown of get_expense_summary the percentages sum
\* to exactly 100 when total_expenses is not zero, and every percentage is 0
\* when total_expenses is zero.
C9_PercentagesSumTo100 ==
    HasExpenseSummary =>
        IF response.total_expenses # 0
        THEN SumPercentages(response.category_breakdown) = 100 * DecimalOne
        ELSE \A i \in 1..Len(response.category_breakdown) :
                 response.category_breakdown[i].percentage_of_total = 0

(* ------------------------------------------------------------------ *)
(* C10                                                                 *)
(* ------------------------------------------------------------------ *)

\* the category names of the rows, in ascending order
CategoryNames == <<"food", "groceries", "salary", "transport">>

NameLT(a, b) ==
    \E i, j \in 1..Len(CategoryNames) :
        /\ CategoryNames[i] = a
        /\ CategoryNames[j] = b
        /\ i < j

\* position of a category in the order the repository accumulated them in
AccumulationIndex(category) ==
    IndexOfCategory(
        GetExpenseSummaryData(transactions,
            WithDefaultExpenseRange(request.filters, request.today)).category_totals,
        category)

\* C10 as stated: category_breakdown is ordered by total_amount descending,
\* categories of equal total_amount by category name ascending.
C10_TiesByCategoryName ==
    HasExpenseSummary =>
        \A i \in 1..(Len(response.category_breakdown) - 1) :
            LET a == response.category_breakdown[i]
                b == response.category_breakdown[i + 1]
            IN  \/ a.total_amount > b.total_amount
                \/ (a.total_amount = b.total_amount /\ NameLT(a.category, b.category))

\* C10: category_breakdown is ordered by total_amount descending, and
\* categories of equal total_amount are in the order in which the repository
\* first accumulated them.
C10_TiesByAccumulationOrder ==
    HasExpenseSummary =>
        \A i \in 1..(Len(response.category_breakdown) - 1) :
            LET a == response.category_breakdown[i]
                b == response.category_breakdown[i + 1]
            IN  \/ a.total_amount > b.total_amount
                \/ /\ a.total_amount = b.total_amount
                   /\ AccumulationIndex(a.category) < AccumulationIndex(b.category)

\* A breakdown of two categories of equal total, transport before food.
C10_Witness ==
    /\ HasExpenseSummary
    /\ Len(response.category_breakdown) = 2
    /\ response.category_breakdown[1].total_amount
           = response.category_breakdown[2].total_amount
    /\ response.category_breakdown[1].category = "transport"
    /\ response.category_breakdown[2].category = "food"

(* ------------------------------------------------------------------ *)
(* C11                                                                 *)
(* ------------------------------------------------------------------ *)

\* the window holds four expenses, one of them at least ten times each other
OneFarLarger(txns, large) ==
    /\ Len(txns) = 4
    /\ \A i \in 1..Len(txns) :
          txns[i].id # large.id => 10 * Abs(txns[i].amount) <= large.amount

\* C11: when one expense of the window is far larger than the few others
\* (700 among 20, 25, 22), get_anomalies returns exactly that transaction.
C11_FarLargerIsFlagged ==
    response.op = "get_anomalies" =>
        \A i \in 1..Len(WindowExpenses) :
            OneFarLarger(WindowExpenses, WindowExpenses[i]) =>
                /\ response.status = "ok"
                /\ AnomalyIds = {WindowExpenses[i].id}

(* ------------------------------------------------------------------ *)
(* C12                                                                 *)
(* ------------------------------------------------------------------ *)

RECURSIVE SumMagnitudesSquared(_)
SumMagnitudesSquared(txns) ==
    IF txns = <<>> THEN 0
    ELSE Abs(Head(txns).amount) * Abs(Head(txns).amount)
         + SumMagnitudesSquared(Tail(txns))

\* |amount| > mean + 2 * population standard deviation of the magnitudes
MagnitudeAboveThreshold(amount, txns) ==
    LET n == Len(txns)
        deviation == n * Abs(amount) - SumMagnitudes(txns)
        spread == n * SumMagnitudesSquared(txns)
                  - SumMagnitudes(txns) * SumMagnitudes(txns)
    IN  deviation > 0 /\ deviation * deviation > 4 * spread

\* C12: get_anomalies flags an expense of the window exactly when its
\* absolute amount is strictly greater than mean + 2 * population standard
\* deviation of the absolute amounts of the window's expenses, also for
\* expenses stored negative.
C12_FlaggedIffAboveThreshold ==
    HasAnomalies =>
        \A i \in 1..Len(WindowExpenses) :
            (WindowExpenses[i].id \in AnomalyIds)
                <=> MagnitudeAboveThreshold(WindowExpenses[i].amount, WindowExpenses)

(* ------------------------------------------------------------------ *)
(* C13                                                                 *)
(* ------------------------------------------------------------------ *)

\* C13: get_anomalies returns at most 10 records, by absolute amount
\* descending and for equal absolute amounts by transaction id ascending,
\* whatever order the source returns rows in; an expense above the threshold
\* that is left out is no larger than any returned.
C13_OrderedAndCapped ==
    HasAnomalies =>
        /\ Len(response.anomalies) <= 10
        /\ \A i \in 1..(Len(response.anomalies) - 1) :
              LET a == response.anomalies[i]
                  b == response.anomalies[i + 1]
              IN  \/ Abs(a.amount) > Abs(b.amount)
                  \/ (Abs(a.amount) = Abs(b.amount)
                      /\ a.transaction_id < b.transaction_id)
        /\ \A i \in 1..Len(WindowExpenses) :
              (/\ WindowExpenses[i].id \notin AnomalyIds
               /\ MagnitudeAboveThreshold(WindowExpenses[i].amount, WindowExpenses))
              => \A j \in 1..Len(response.anomalies) :
                     Abs(WindowExpenses[i].amount) <= Abs(response.anomalies[j].amount)

(* ------------------------------------------------------------------ *)
(* C14                                                                 *)
(* ------------------------------------------------------------------ *)

\* C14: get_anomalies returns an empty list when the window holds fewer than
\* 2 expenses and when all expenses of the window have the same amount.
C14_NoSpreadNoAnomalies ==
    (/\ response.op = "get_anomalies"
     /\ \/ Len(WindowExpenses) < 2
        \/ \A i, j \in 1..Len(WindowExpenses) :
              WindowExpenses[i].amount = WindowExpenses[j].amount)
    => /\ response.status = "ok"
       /\ response.anomalies = <<>>

\* A call over a window of six expenses of one amount, answered with an
\* empty list.
C14_Witness ==
    /\ response.op = "get_anomalies"
    /\ response.status = "ok"
    /\ response.anomalies = <<>>
    /\ Len(WindowExpenses) = 6
    /\ \A i \in 1..6 : WindowExpenses[i].amount = 0 - 100
    /\ ~request.rounded_up

(* ------------------------------------------------------------------ *)
(* C15                                                                 *)
(* ------------------------------------------------------------------ *)

\* C15: with two or more daily buckets, split as the code splits them, the
\* trend of get_spending_velocity is 'increasing' exactly when the mean spent
\* per bucket of the second half is above 1.10 times that of the first half,
\* 'decreasing' exactly when it is below 0.90 times it, 'stable' otherwise.
C15_TrendFollowsSpending ==
    (HasVelocity /\ Len(VelocityPoints) >= 2) =>
        LET n == Len(VelocityPoints)
            n1 == MidPoint(n)
            n2 == n - n1
            first == SumSpent(SubSeq(VelocityPoints, 1, n1))
            second == SumSpent(SubSeq(VelocityPoints, n1 + 1, n))
        IN  response.velocity_trend =
                IF 10 * second * n1 > 11 * first * n2 THEN "increasing"
                ELSE IF 10 * second * n1 < 9 * first * n2 THEN "decreasing"
                ELSE "stable"

(* ------------------------------------------------------------------ *)
(* C16                                                                 *)
(* ------------------------------------------------------------------ *)

\* the half averages are the rounded means of the first k buckets and of
\* the buckets after them
HalvesSplitAt(k) ==
    LET n == Len(VelocityPoints)
    IN  /\ k >= 1
        /\ IsRoundedQuotient(response.first_half_avg,
               SumTotalExpenses(SubSeq(VelocityPoints, 1, k)), k)
        /\ IsRoundedQuotient(response.second_half_avg,
               SumTotalExpenses(SubSeq(VelocityPoints, k + 1, n)), n - k)

\* C16 as stated: for n >= 2 daily buckets the first half of
\* get_spending_velocity is the first ceil(n/2) buckets and the second half
\* the remaining floor(n/2).
C16_ExtraBucketInFirstHalf ==
    (HasVelocity /\ Len(VelocityPoints) >= 2) =>
        HalvesSplitAt((Len(VelocityPoints) + 1) \div 2)

\* C16: for n >= 2 daily buckets the first half of get_spending_velocity is
\* the first floor(n/2) buckets and the second half the remaining ceil(n/2):
\* with an odd number of buckets the middle bucket counts in the second half.
C16_ExtraBucketInSecondHalf ==
    (HasVelocity /\ Len(VelocityPoints) >= 2) =>
        HalvesSplitAt(Len(VelocityPoints) \div 2)

\* Three daily buckets of different totals: the first half is the first
\* bucket alone.
C16_Witness ==
    /\ HasVelocity
    /\ Len(VelocityPoints) = 3
    /\ VelocityPoints[1].total_expenses # VelocityPoints[2].total_expenses
    /\ response.first_half_avg = VelocityPoints[1].total_expenses * DecimalOne
    /\ response.second_half_avg # VelocityPoints[3].total_expenses * DecimalOne

(* ------------------------------------------------------------------ *)
(* C17                                                                 *)
(* ------------------------------------------------------------------ *)

\* C17: get_spending_velocity returns the trend 'stable' when the timeline
\* has fewer than 2 daily buckets, and daily_avg 0 when it has none.
C17_FewBucketsAreStable ==
    (HasVelocity /\ Len(VelocityPoints) < 2) =>
        /\ response.velocity_trend = "stable"
        /\ (VelocityPoints = <<>> => response.daily_avg = 0)

(* ------------------------------------------------------------------ *)
(* C18                                                                 *)
(* ------------------------------------------------------------------ *)

\* C18: the daily_avg of get_spending_velocity(user, days) is total_spent
\* divided by days, also when days of the window have no transactions.
C18_AverageOverWindow ==
    HasVelocity =>
        IsRoundedQuotient(response.daily_avg, response.total_spent, request.days)

(* ------------------------------------------------------------------ *)
(* C19                                                                 *)
(* ------------------------------------------------------------------ *)

\* C19: no call raises a division fault: a ratio whose denominator is zero is
\* 0 (deviation_factor in get_anomalies among them).
C19_NoDivisionFault ==
    response.op = "get_anomalies" => response.status # "raised"

(* ------------------------------------------------------------------ *)
(* C20                                                                 *)
(* ------------------------------------------------------------------ *)

\* C20: with no transactions no analytics call raises: get_timeline returns
\* no data points and summary_stats of 0, get_expense_summary zero totals and
\* an empty category_breakdown, get_cash_flow an ending_balance equal to
\* starting_balance and zero totals, get_spending_velocity daily_avg 0 and
\* 'stable', get_anomalies an empty list.
C20_EmptyIsWellFormed ==
    (transactions = <<>> /\ response.op # "none") =>
        /\ response.status = "ok"
        /\ response.op = "get_timeline" =>
              /\ response.data_points = <<>>
              /\ \A k \in DOMAIN response.summary_stats :
                    response.summary_stats[k] = 0
        /\ response.op = "get_expense_summary" =>
              /\ response.total_expenses = 0
              /\ response.total_income = 0
              /\ response.net_amount = 0
              /\ response.category_breakdown = <<>>
        /\ response.op = "get_cash_flow" =>
              /\ response.ending_balance = response.starting_balance
              /\ response.total_income = 0
              /\ response.total_expenses = 0
              /\ response.net_cash_flow = 0
        /\ response.op = "get_spending_velocity" =>
              /\ response.daily_avg = 0
              /\ response.velocity_trend = "stable"
        /\ response.op = "get_anomalies" => response.anomalies = <<>>

(* ------------------------------------------------------------------ *)
(* C21                                                                 *)
(* ------------------------------------------------------------------ *)

\* C21: a timeline or expense-summary request whose end_date is before its
\* start_date is rejected with an error; it never returns a result, not even
\* an empty one.
C21_InvertedRangeRejected ==
    HasInvertedRange => response.status = "raised"

(* ------------------------------------------------------------------ *)
(* C22                                                                 *)
(* ------------------------------------------------------------------ *)

\* C22: get_timeline and get_expense_summary leave the filters object the
\* caller passed unchanged: while the call is being served and after it, the
\* caller's object still has the start_date and end_date it was passed with.
C22_FiltersObjectUnchanged ==
    (/\ request.op \in {"get_timeline", "get_expense_summary"}
     /\ caller_filters # None)
        => caller_filters[1] = request.filters

(* ------------------------------------------------------------------ *)
(* C23                                                                 *)
(* ------------------------------------------------------------------ *)

\* C23: under every interleaving of two first-time calls on the shared
\* MockDataService, get_mock_transactions(user) returns to every caller the
\* complete transaction list of that user, never an empty or partly loaded
\* one.
C23_CompleteListToEveryCaller ==
    \A t \in Returned : threads[t].result = MockTransactions(transactions)

(* ------------------------------------------------------------------ *)
(* C24                                                                 *)
(* ------------------------------------------------------------------ *)

\* C24: after any sequence of successful create_transaction and
\* update_transaction calls every stored transaction follows the sign
\* convention: amount <= 0 for an expense and amount >= 0 for an income.
C24_StoredAmountsFollowType ==
    \A i \in 1..Len(transactions) :
        /\ transactions[i].type = "expense" => transactions[i].amount <= 0
        /\ transactions[i].type = "income"  => transactions[i].amount >= 0

(* ------------------------------------------------------------------ *)
(* C25                                                                 *)
(* ------------------------------------------------------------------ *)

\* the call being served is a create_transaction of a zero amount or of a
\* date after today
CreateOfInvalid ==
    /\ request.op = "create_transaction"
    /\ \/ request.transaction_data.amount = 0
       \/ DateLT(request.today, request.transaction_data.transaction_date)

\* C25: create_transaction raises ValueError when the amount is zero or the
\* date is after today, and a create_transaction that raised left the stored
\* transactions as they were.
C25_InvalidCreateRaisesAndStoresNothing ==
    [][ request'.op = "create_transaction" =>
            /\ CreateOfInvalid' =>
                  response'.status = "raised" /\ response'.error = "ValueError"
            /\ response'.status = "raised" => transactions' = transactions ]_vars

\* a create_transaction of a zero amount raised on a table that holds rows
C25_Witness ==
    /\ CreateOfInvalid
    /\ request.transaction_data.amount = 0
    /\ response.status = "raised"
    /\ Len(transactions) > 0

(* ------------------------------------------------------------------ *)
(* C26                                                                 *)
(* ------------------------------------------------------------------ *)

\* the rows the range query of the get_cash_flow_data call in progress returned
FetchedRows ==
    RowsInRange(transactions, request.start_date, request.end_date)

\* sum of the amounts of the rows of a type
RECURSIVE SumAmountsOfType(_, _)
SumAmountsOfType(rows, type) ==
    IF rows = <<>> THEN 0
    ELSE (IF Head(rows).type = type THEN Head(rows).amount ELSE 0)
         + SumAmountsOfType(Tail(rows), type)

\* number of transactions accumulated into the points
RECURSIVE CountAccumulated(_)
CountAccumulated(points) ==
    IF points = <<>> THEN 0
    ELSE Len(Head(points).transactions) + CountAccumulated(Tail(points))

\* C26: every transaction the range query of get_cash_flow_data returned is
\* accumulated into exactly one returned point: the points' total_income sum
\* to the fetched income amounts, their total_expenses to the fetched expense
\* amounts, and they hold as many transactions as were fetched.
C26_EveryFetchedRowAccumulated ==
    (response.op = "get_cash_flow_data" /\ response.status = "ok") =>
        /\ SumTotalIncome(response.data) = SumAmountsOfType(FetchedRows, "income")
        /\ SumTotalExpenses(response.data) = SumAmountsOfType(FetchedRows, "expense")
        /\ CountAccumulated(response.data) = Len(FetchedRows)

(* ------------------------------------------------------------------ *)
(* C27                                                                 *)
(* ------------------------------------------------------------------ *)

\* C27: every CashFlowResponse, of the repository path and of the mock path,
\* has total_income and total_expenses equal to the sums over its points,
\* net_cash_flow = total_income - total_expenses and
\* ending_balance = starting_balance + net_cash_flow; with no points the
\* ending balance is the starting balance.
C27_EndingBalanceIsStartPlusNet ==
    (response.op = "get_cash_flow" /\ response.status = "ok") =>
        /\ response.total_income = SumTotalIncome(response.cash_flow_points)
        /\ response.total_expenses = SumTotalExpenses(response.cash_flow_points)
        /\ response.net_cash_flow = response.total_income - response.total_expenses
        /\ response.ending_balance = response.starting_balance + response.net_cash_flow
        /\ (response.cash_flow_points = <<>> =>
               response.ending_balance = response.starting_balance)

\* a response of the mock path with two points or more, expenses and a
\* starting balance that is not zero
C27_Witness ==
    /\ response.op = "get_cash_flow"
    /\ response.status = "ok"
    /\ response.path = "mock"
    /\ Len(response.cash_flow_points) >= 2
    /\ response.total_expenses # 0
    /\ response.total_income # 0
    /\ response.starting_balance # 0

(* ------------------------------------------------------------------ *)
(* C28                                                                 *)
(* ------------------------------------------------------------------ *)

\* C28: for every start_date <= end_date and every grouping the
\* period-generation loop of get_cash_flow_data completes without raising,
\* whatever the day of the month of start_date.
C28_PeriodLoopCompletes ==
    (/\ response.op = "get_cash_flow_data"
     /\ DateLE(request.start_date, request.end_date))
        => response.status = "ok"

(* ------------------------------------------------------------------ *)
(* C29                                                                 *)
(* ------------------------------------------------------------------ *)

\* the time an entry of a history was added at: its question names it
AddedAt(entry) == entry[1]

\* C29: once a session has been idle for longer than session_timeout, no
\* entry added before the idle period is returned again by get_chat_history:
\* a returned history has no two consecutive entries added more than
\* session_timeout apart.
C29_NothingFromBeforeAnIdlePeriod ==
    response.op = "get_chat_history" =>
        \A i \in 1..(Len(response.result) - 1) :
            AddedAt(response.result[i + 1]) - AddedAt(response.result[i])
                <= SessionTimeout

(* ------------------------------------------------------------------ *)
(* C30                                                                 *)
(* ------------------------------------------------------------------ *)

\* the list holds the last entries of `full`, all of them or `length`
IsLatestOf(list, full, length) ==
    /\ Len(list) = (IF Len(full) <= length THEN Len(full) ELSE length)
    /\ \A i \in 1..Len(list) : list[i] = full[Len(full) - Len(list) + i]

\* a step that is the call of add_to_history for the session
AddsTo(session_id) ==
    /\ request.op = "none"
    /\ request'.op = "add_to_history"
    /\ request'.session_id = session_id

\* C30: after every operation each session's history holds at most
\* max_history_length entries, which are the most recently added pairs of the
\* session in insertion order (add_to_history appends its pair and keeps the
\* latest, every other step leaves a remaining history as it was), and
\* chat_histories and session_timestamps have the same session ids.
C30_HistoriesBoundedAndLatest ==
    [][ /\ DOMAIN chat_histories' = DOMAIN session_timestamps'
        /\ \A s \in DOMAIN chat_histories' :
              /\ Len(chat_histories'[s]) <= max_history_length
              /\ IF AddsTo(s)
                  THEN IsLatestOf(chat_histories'[s],
                           Append(HistoryOf(s),
                                  <<request'.question, request'.answer>>),
                           max_history_length)
                  ELSE /\ s \in DOMAIN chat_histories
                       /\ chat_histories'[s] = chat_histories[s] ]_vars

====
